---------------------------- MODULE Spec2Model ----------------------------
(***************************************************************************)
(* A model of the sync coordination layer of powersync-native: the status  *)
(* model (sync/status.rs, db/internal.rs), the table-change notifier       *)
(* (db/watch.rs, util/raw_listener.rs), the CRUD upload run                *)
(* (sync/upload.rs) and the download actor with its sync iteration         *)
(* (sync/download/actor.rs, sync/download/sync_iteration.rs).              *)
(*                                                                         *)
(* Every component has its own group of variables and its own              *)
(* specification; a specification leaves the other groups untouched.       *)
(***************************************************************************)
EXTENDS Integers, Sequences, FiniteSets, TLC

(***************************************************************************)
(* Bounds of the model.                                                    *)
(***************************************************************************)
\* Number of status snapshots the updater installs in the status specification.
MaxRevisions == 4
\* Number of notify_updates calls in the notifier specifications.
MaxNotifications == 3
\* Number of local writes to ps_crud in the upload specification.
MaxWrites == 2
\* Largest write checkpoint the service answers with.
MaxCheckpoint == 2
\* Longest instruction list one powersync_control call returns.
MaxInstructions == 2
\* Number of subscribe calls on sync streams.
MaxSubscriptions == 3
\* Number of local write transactions and of rows written by one of them.
MaxTransactions == 3
MaxTxRows == 3
\* Number of sync streams the download iteration establishes after connect().
MaxEstablished == 2
\* Number of connection leases taken from the pool, and of pooled readers.
MaxLeases == 2
MaxReaders == 1
\* Frames in the input of the BSON framer.
MaxFrames == 2
MaxCallers == 2
MaxLines == 2
MaxEnds == 2
\* Streams made by TableNotifiers::listen.
MaxStreams == 4
\* Concurrent calls of SharedFuture::run.
MaxSharers == 3

None == "None"

\* Option<EventListener>::None
NoListener == [rev |-> 0, notified |-> FALSE]

(***************************************************************************)
(* Status model: sync/status.rs                                            *)
(***************************************************************************)
VARIABLES
    data,            \* SyncStatus.data: the revision of the current snapshot
    statusData,      \* the fields of the current snapshot
    is_invalidated,  \* is_invalidated[r]: the flag of snapshot revision r
    statusLock,      \* the mutex of SyncStatus.data is held by an update
    updOld,          \* old_state of the update inside its critical section
    last_data,       \* StreamImpl.last_data, 0 for None
    listener,        \* the EventListener of the stream (local or in this.waiter)
    wsPc,            \* position of the stream inside poll_next
    emittedStatus    \* the revisions the stream has emitted, in order

statusVars == <<data, statusData, is_invalidated, statusLock, updOld,
                last_data, listener, wsPc, emittedStatus>>

(***************************************************************************)
(* Table-change notifier: db/watch.rs and util/raw_listener.rs             *)
(***************************************************************************)
VARIABLES
    active,          \* TableNotifiers.active: the registered stream listeners
    tables,          \* TableListenerState.tables of the stream
    emit_initially,  \* the argument of listen
    dirty,           \* TableListenerState.dirty
    tlListener,      \* the EventListener on TableListenerState.notifer
    tsPc,            \* position of the stream inside poll_next
    nEmitted,        \* events the stream has emitted
    nMatching,       \* notify_updates calls whose set intersected tables
    nBatches,        \* times the dirty flag went from false to true
    nuPc,            \* position of the thread inside notify_updates
    nuUpdates,       \* the argument of the notify_updates call in progress
    nNotifications,  \* notify_updates calls so far
    raw_listeners,   \* CallbackListeners.raw_listeners
    cbIdx,           \* the element the retain pass of notify_listeners is at
    deactivated,     \* the deactivated flag shared by a listener and its handle
    handlePc,        \* per handle: "alive", "storing" (inside drop) or "dropped"
    cbInvoked        \* how often each callback has been invoked

watchVars == <<active, tables, emit_initially, dirty, tlListener, tsPc,
               nEmitted, nMatching, nBatches>>
notifyVars == <<nuPc, nuUpdates, nNotifications>>
callbackVars == <<raw_listeners, cbIdx, deactivated, handlePc, cbInvoked>>

(***************************************************************************)
(* CRUD queue and upload run: sync/upload.rs, db/internal.rs               *)
(***************************************************************************)
VARIABLES
    ps_crud,         \* the ids of the rows of ps_crud
    crud_seq,        \* sqlite_sequence.seq of ps_crud, 0 while there is no row
    target_op,       \* ps_buckets.target_op of $local, NoLocalBucket while absent
    customTarget,    \* target_op was last set by a caller's own write checkpoint
    upPc,            \* position of CrudUpload::run
    last_item_id,    \* run: last_item_id, 0 for None
    upError,         \* the error the run returned, "none" without one
    observed,        \* the oldest ids the run has read, in order
    uploadCalls,     \* the oldest ids upload_data was invoked for in the run
    crud_sequence,   \* PendingCheckpointRequest.crud_sequence
    write_checkpoint \* run: the write checkpoint fetched from the service

crudVars == <<ps_crud, crud_seq, target_op, customTarget>>
runVars == <<upError, observed, uploadCalls>>

uploadVars == <<upPc, last_item_id, crud_sequence, write_checkpoint, runVars>>

(***************************************************************************)
(* Download actor and sync iteration: sync/download                        *)
(***************************************************************************)
VARIABLES
    state,           \* DownloadActor.state
    commands,        \* the command channel of the actor (capacity 1)
    commandsClosed,  \* every sender of the command channel has been dropped
    options,         \* DownloadActor.options, 0 for None
    send_events,     \* the event channel of the running iteration (capacity 1)
    forwarding,      \* the event forwarding_request is blocked sending, or None
    timeout,         \* WaitingForReconnect.timeout: "zero" or "delay"
    disconnectSeen,  \* a Disconnect was received and no Connect since
    iterPc,          \* position of DownloadClient::run
    instructions,    \* what the for loop has left of the last control reply
    stream,          \* DownloadClient.stream
    result           \* how the last iteration ended

actorVars == <<state, commands, commandsClosed, options, send_events, forwarding,
               timeout, disconnectSeen>>
iterVars == <<iterPc, instructions, stream, result>>

(***************************************************************************)
(* Sync stream subscriptions: db/streams.rs                                *)
(***************************************************************************)
VARIABLES
    streams,        \* SyncStreamTracker.streams: key -> group, 0 for no entry
    strong,         \* strong count of the Arc of each StreamSubscriptionGroup
    subPc,          \* position of each subscribe call and its StreamSubscription
    subKey,         \* the key of each subscribe call
    subGroup,       \* StreamSubscription.group
    subChanged,     \* the ChangedSyncSubscriptions reference_stream returned
    sentChanges     \* the key lists handed to handle_subscriptions_changed

streamVars == <<streams, strong, subPc, subKey, subGroup, subChanged, sentChanges>>

baseVars == <<statusVars, watchVars, notifyVars, callbackVars, crudVars, uploadVars,
              actorVars, iterVars>>

(***************************************************************************)
(* CRUD transactions: db/crud.rs                                           *)
(***************************************************************************)
VARIABLES
    crudTx,            \* ps_crud.tx_id of every row written so far, by row id
    writtenSizes,      \* the number of rows of every write transaction, in order
    txs_last_item_id,  \* CrudTransactionStream.last_item_id, NoItem for None
    yielded,           \* the transactions the current stream has returned
    txsEnded,          \* the current stream has returned None
    txsQuiet,          \* no write and no completion since the stream was made
    completedId,       \* the greatest last_client_id completed so far
    afterComplete      \* the last transaction was returned after that completion

txVars == <<crudTx, writtenSizes, txs_last_item_id, yielded, txsEnded, txsQuiet,
            completedId, afterComplete>>

(***************************************************************************)
(* The writer transaction of complete_crud_items: db/internal.rs           *)
(***************************************************************************)
VARIABLES
    cciPc,             \* position of the call in complete_crud_items
    cci_last,          \* its last_client_id
    cci_checkpoint,    \* its write_checkpoint, 0 for None
    txn_ps_crud,       \* ps_crud as the open transaction sees it
    txn_target_op,     \* target_op of $local as the open transaction sees it
    local_target_op,   \* the variable target_op of the function
    cciResult          \* how the last call returned: "none", "ok" or "err"

completeVars == <<cciPc, cci_last, cci_checkpoint, txn_ps_crud, txn_target_op,
                  local_target_op, cciResult>>

(***************************************************************************)
(* Upload actor: sync/upload.rs, sync/coordinator.rs                       *)
(***************************************************************************)
VARIABLES
    upState,         \* UploadActor.state
    upCommands,      \* the bounded(1) channel of upload actor commands
    upClosed,        \* every sender of the channel has been dropped
    crudDirty,       \* ConnectedUploadActor.crud_stream has an event to emit
    connectPc,       \* position of SyncCoordinator::connect
    triggerPc,       \* the iteration is in trigger_crud_uploads
    established,     \* number of sync streams established so far
    disconnectSent   \* disconnect() has sent Disconnect to the upload actor

upActorVars == <<upState, upCommands, upClosed, crudDirty, connectPc, triggerPc,
                 established, disconnectSent>>

(***************************************************************************)
(* Connection pool: db/pool.rs                                             *)
(***************************************************************************)
VARIABLES
    readers,           \* connections in PoolReaders.take_reader, NoReaders for None
    writerLocked,      \* PoolState.writer (the mutex) is locked
    leasePc,           \* each lease: "none", "waiting", "held" or "dropped"
    leaseWriter,       \* the caller asked for the writer (writer, writer_sync)
    leaseSync,         \* the caller used take_connection_sync
    leaseImpl,         \* LeasedConnectionImpl of the lease: "Writer" or "Reader"
    txOpen,            \* the writer connection is inside a transaction
    pendingTables,     \* update hook: tables written by the open transaction
    committedTables,   \* update hook: tables of committed writes, until 'get'
    leaseWrote,        \* tracked tables each lease has written and committed
    notifications      \* the notifications handed to send_notifications

poolVars == <<readers, writerLocked, leasePc, leaseWriter, leaseSync, leaseImpl, txOpen,
              pendingTables, committedTables, leaseWrote, notifications>>

extVars == <<streamVars, txVars, completeVars, upActorVars, poolVars>>

(***************************************************************************)
(* BSON framing: util/bson_split.rs                                        *)
(***************************************************************************)
VARIABLES
    bsFrames,          \* the frames the input was built from
    bsTail,            \* the bytes that follow the last frame of the input
    reader,            \* BsonObjects.reader: the bytes not yet consumed
    buf,               \* BsonObjects.buf
    remainingBytes,    \* BsonObjects.remaining
    items,             \* the Ok items the stream has yielded
    bsEnd,             \* how the stream ended: "open", "None" or the error kind
    straddled          \* a poll of the reader ended inside a header or a frame

bsonVars == <<bsFrames, bsTail, reader, buf, remainingBytes, items, bsEnd, straddled>>

(***************************************************************************)
(* Requests to the download actor and their acknowledgements:              *)
(* sync/coordinator.rs, sync/download/actor.rs, db/streams.rs              *)
(***************************************************************************)
VARIABLES
    callers,         \* each caller: its call, the request it sends, whether it was acknowledged
    dlCommands,      \* the command channel of the download actor (capacity 1)
    dlClosed,        \* every sender of the command channel has been dropped
    dlState,         \* DownloadActor.state
    dlOptions,       \* DownloadActor.options, 0 for None
    dlEvents,        \* the event channel of the running iteration (capacity 1)
    dlForward,       \* the request forwarding_request holds while its send is blocked
    dlTimeout,       \* WaitingForReconnect.timeout: "zero" or "delay"
    dlElapsed,       \* the retry delay of the options has passed since the iteration ended
    dlStart,         \* the StartDownloadIteration of the last iteration
    dlFirst,         \* the first event the iteration has taken, or None
    dlStarts,        \* how many Start events the iteration has taken
    dlSubs,          \* the subscription keys the iteration was told last
    dlStream,        \* DownloadClient.stream is Some
    tracker,         \* the keys of SyncStreamTracker.streams
    coreSubs,        \* the subscriptions stored by the core extension
    statusStreams,   \* the streams of the current status snapshot
    lastResolve      \* how the last resolve_offline_state ended

coordVars == <<callers, dlCommands, dlClosed, dlState, dlOptions, dlEvents, dlForward,
               dlTimeout, dlElapsed, dlStart, dlFirst, dlStarts, dlSubs, dlStream,
               tracker, coreSubs, statusStreams, lastResolve>>

(***************************************************************************)
(* The response stream of one sync-stream request: sync/download/http.rs   *)
(***************************************************************************)
VARIABLES
    response,        \* how the request of this sync stream ends: status, content type
    respLines,       \* the lines (or BSON objects) the service wrote into the body
    body,            \* the part of the body that has not been decoded
    httpPc,          \* "request": the response is awaited; "lines": the body is read
    passed,          \* the events of this stream given to powersync_control, in order
    iterEnd          \* "running", "closed", or the error DownloadClient::run returned

httpVars == <<response, respLines, body, httpPc, passed, iterEnd>>

(***************************************************************************)
(* Who waits for whom: the requests to both actors, the event channel of   *)
(* the iteration and the writer lease                                      *)
(* sync/coordinator.rs, sync/download, sync/upload.rs                      *)
(***************************************************************************)
VARIABLES
    wCall,           \* each caller of the coordinator: its call and where it waits
    wDl,             \* control_downloads: the bounded(1) channel of download commands
    wUp,             \* control_uploads: the bounded(1) channel of upload commands
    wDlState,        \* DownloadActor.state
    wDlHeld,         \* the request the download actor holds while it awaits
    wEvents,         \* the event channel of the running iteration (capacity 1)
    wIter,           \* position of DownloadClient::run
    wCur,            \* the event DownloadClient::run is handling
    wStream,         \* DownloadClient.stream is Some
    wLease,          \* who holds the writer of the pool: "free" or "iteration"
    wUpState,        \* UploadActor.state
    wRun             \* position of the CrudUpload::run of RunningUpload

waitVars == <<wCall, wDl, wUp, wDlState, wDlHeld, wEvents, wIter, wCur, wStream,
              wLease, wUpState, wRun>>

(***************************************************************************)
(* The registry of table streams: db/watch.rs                              *)
(***************************************************************************)
VARIABLES
    plActive,        \* TableNotifiers.active: the listener states, in push order
    plState,         \* each PendingListener: "none", "alive" or "dropped"
    notifiersAlive   \* an Arc<TableNotifiers> is left, so Weak::upgrade succeeds

regVars == <<plActive, plState, notifiersAlive>>

(***************************************************************************)
(* SharedFuture: util/shared_future.rs                                     *)
(***************************************************************************)
VARIABLES
    sfState,         \* SharedFutureData.state
    sfResult,        \* SharedFutureData.result: who wrote it, 0 while uninitialised
    sfPc,            \* position of each call of run
    sfListener,      \* the EventListener of each call: "none", "listening", "notified"
    sfGot            \* the value each call returned, 0 for none

sharedVars == <<sfState, sfResult, sfPc, sfListener, sfGot>>

lateVars == <<waitVars, regVars, sharedVars>>

VARIABLE
    task             \* which of the two actor tasks is followed: "download", "upload" or "none"

moreVars == <<bsonVars, coordVars, task, httpVars, lateVars>>

vars == <<baseVars, extVars, moreVars>>

DownloadErrors == {"e1", "e2"}
UploadStates == {"Idle", "Uploading", "Error"}
CoreStatuses == {"offline", "connected"}

\* SyncStatusData::default()
DefaultStatusData ==
    [downloading |-> "offline", download_error |-> None, uploads |-> "Idle"]

\* A mutated new_revision that starts from the default snapshot.
new_revision_Forgetful(s) ==
    [downloading |-> s.downloading, download_error |-> None, uploads |-> "Idle"]

\* SyncStatusData::new_revision: clones downloading and the error, resets uploads.
new_revision(s) ==
    [downloading |-> s.downloading, download_error |-> s.download_error,
     uploads |-> "Idle"]

update_from_core(s, core) == [s EXCEPT !.downloading = core]

set_download_error(s, e) == [s EXCEPT !.download_error = e]

set_upload_state(s, st) == [s EXCEPT !.uploads = st]

clear_download_errors(s) == [s EXCEPT !.download_error = None]

\* The mutators callers hand to SyncStatus::update.
Mutators ==
    [op : {"update_from_core"}, arg : CoreStatuses]
      \cup [op : {"set_download_error"}, arg : DownloadErrors]
      \cup [op : {"set_upload_state"}, arg : UploadStates]
      \cup [op : {"clear_download_errors"}, arg : {None}]
      \cup [op : {"noop"}, arg : {None}]

ApplyMutator(s, m) ==
    CASE m.op = "update_from_core" -> update_from_core(s, m.arg)
      [] m.op = "set_download_error" -> set_download_error(s, m.arg)
      [] m.op = "set_upload_state" -> set_upload_state(s, m.arg)
      [] m.op = "clear_download_errors" -> clear_download_errors(s)
      [] m.op = "noop" -> s

\* A mutated update that installs the new snapshot and forgets to raise the flag
\* of the old one.
InvalidateOld_Forgotten(flags, old) == flags

\* SyncStatus::update, line 46: old_state.is_invalidated.store(true).
InvalidateOld(flags, old) == [flags EXCEPT ![old] = TRUE]

\* SyncStatus::update up to the store of the flag. The replacement of the
\* pointer (line 45) touches only data guarded by the mutex, which is held until
\* the end of update, so it is taken together with the store of the flag.
StatusInstall(m) ==
    /\ ~statusLock
    /\ Len(is_invalidated) < MaxRevisions
    /\ statusLock' = TRUE
    /\ statusData' = ApplyMutator(new_revision(statusData), m)
    /\ data' = data + 1
    /\ is_invalidated' = Append(InvalidateOld(is_invalidated, data), FALSE)
    /\ updOld' = data
    /\ UNCHANGED <<last_data, listener, wsPc, emittedStatus>>

\* Event::notify(usize::MAX) on the event of snapshot r: every listener
\* registered on it is notified.
NotifyEvent(l, r) ==
    IF l # NoListener /\ l.rev = r THEN [l EXCEPT !.notified = TRUE] ELSE l

\* SyncStatus::update, line 47 to the release of the mutex.
StatusNotify ==
    /\ statusLock
    /\ listener' = NotifyEvent(listener, updOld)
    /\ statusLock' = FALSE
    /\ updOld' = 0
    /\ UNCHANGED <<data, statusData, is_invalidated, last_data, wsPc, emittedStatus>>

(***************************************************************************)
(* watch_status: db/internal.rs, StreamImpl::poll_next, with               *)
(* SyncStatusData::listen_for_changes inlined at its three steps.          *)
(***************************************************************************)
\* First poll: emit the initial snapshot. current_snapshot takes the mutex.
WS_FirstPoll ==
    /\ wsPc = "poll" /\ last_data = 0
    /\ ~statusLock
    /\ last_data' = data
    /\ emittedStatus' = Append(emittedStatus, data)
    /\ UNCHANGED <<data, statusData, is_invalidated, statusLock, updOld, listener, wsPc>>

\* ready!(waiter.poll(cx)); this.waiter = None. A poll of a listener that has
\* not been notified returns Pending and changes nothing.
WS_PollWaiter ==
    /\ wsPc = "poll" /\ last_data # 0
    /\ listener # NoListener /\ listener.notified
    /\ listener' = NoListener
    /\ wsPc' = "snapshot"
    /\ UNCHANGED <<data, statusData, is_invalidated, statusLock, updOld, last_data,
                   emittedStatus>>

\* listen_for_changes, first load of the flag (status.rs line 157).
WS_CheckInvalidated ==
    /\ wsPc = "poll" /\ last_data # 0 /\ listener = NoListener
    /\ wsPc' = IF is_invalidated[last_data] THEN "snapshot" ELSE "listen"
    /\ UNCHANGED <<data, statusData, is_invalidated, statusLock, updOld, last_data,
                   listener, emittedStatus>>

\* listen_for_changes: self.invalidated.listen() (status.rs line 161).
WS_Listen ==
    /\ wsPc = "listen"
    /\ listener' = [rev |-> last_data, notified |-> FALSE]
    /\ wsPc' = "recheck"
    /\ UNCHANGED <<data, statusData, is_invalidated, statusLock, updOld, last_data,
                   emittedStatus>>

\* A mutated listen_for_changes that does not test the flag again after
\* attaching the listener.
RecheckInvalidated_Skipped(r) == FALSE

\* listen_for_changes, second load of the flag (status.rs line 162).
RecheckInvalidated(r) == is_invalidated[r]

\* listen_for_changes returns None (the listener is dropped) or Some(listener),
\* which poll_next stores in this.waiter.
WS_Recheck ==
    /\ wsPc = "recheck"
    /\ IF RecheckInvalidated(last_data)
         THEN listener' = NoListener /\ wsPc' = "snapshot"
         ELSE listener' = listener /\ wsPc' = "poll"
    /\ UNCHANGED <<data, statusData, is_invalidated, statusLock, updOld, last_data,
                   emittedStatus>>

\* let data = current_snapshot(); *last_data = data.clone(); Ready(Some(data)).
WS_EmitCurrent ==
    /\ wsPc = "snapshot"
    /\ ~statusLock
    /\ last_data' = data
    /\ emittedStatus' = Append(emittedStatus, data)
    /\ wsPc' = "poll"
    /\ UNCHANGED <<data, statusData, is_invalidated, statusLock, updOld, listener>>

(***************************************************************************)
(* TableNotifiers: db/watch.rs                                             *)
(***************************************************************************)
Tables == {"a", "b"}

\* A mutated filter that matches every update set.
Intersects_Always(filter, updates) == TRUE

\* listener.tables.intersection(updates).next().is_some()
Intersects(filter, updates) == filter \cap updates # {}

\* The stream listeners of `active` that notify_updates marks dirty.
MarkedByUpdates(updates) ==
    {i \in 1..Len(active) : Intersects(tables, updates)}

\* notify_updates up to the fetch_or of mark_dirty: takes the lock of `active`
\* and, for a matching listener, raises the dirty flag. Only a flag that was not
\* raised before leads on to the notification of the event.
NU_Begin(updates) ==
    /\ nuPc = "idle"
    /\ nNotifications < MaxNotifications
    /\ nNotifications' = nNotifications + 1
    /\ nuUpdates' = updates
    /\ nMatching' = IF active # <<>> /\ tables \cap updates # {}
                       THEN nMatching + 1 ELSE nMatching
    /\ IF MarkedByUpdates(updates) # {}
         THEN /\ dirty' = TRUE
              /\ nBatches' = IF dirty THEN nBatches ELSE nBatches + 1
              /\ nuPc' = IF dirty THEN "enter" ELSE "event"
         ELSE /\ UNCHANGED <<dirty, nBatches>>
              /\ nuPc' = "enter"
    /\ UNCHANGED <<active, tables, emit_initially, tlListener, tsPc, nEmitted>>
    /\ UNCHANGED callbackVars

\* mark_dirty: self.notifer.notify(usize::MAX).
NU_Notify ==
    /\ nuPc = "event"
    /\ tlListener' = IF tlListener = "listening" THEN "notified" ELSE tlListener
    /\ nuPc' = "enter"
    /\ UNCHANGED <<active, tables, emit_initially, dirty, tsPc, nEmitted, nMatching,
                   nBatches, nuUpdates, nNotifications>>
    /\ UNCHANGED callbackVars

\* notify_listeners: raw_listeners.lock().
NU_EnterCallbacks ==
    /\ nuPc = "enter"
    /\ nuPc' = "callbacks"
    /\ cbIdx' = 1
    /\ UNCHANGED <<nuUpdates, nNotifications, raw_listeners, deactivated, handlePc,
                   cbInvoked>>
    /\ UNCHANGED watchVars

\* The end of notify_listeners and of notify_updates: both locks are released.
NU_Finish ==
    /\ nuPc = "callbacks"
    /\ cbIdx > Len(raw_listeners)
    /\ nuPc' = "idle"
    /\ cbIdx' = 0
    /\ nuUpdates' = {}
    /\ UNCHANGED <<nNotifications, raw_listeners, deactivated, handlePc, cbInvoked>>
    /\ UNCHANGED watchVars

(***************************************************************************)
(* The stream returned by TableNotifiers::listen: PendingListener          *)
(***************************************************************************)
\* ready!(waiter.poll(cx)); this.current_waiter = None. A poll of a waiter that
\* has not been notified returns Pending and changes nothing.
TS_PollWaiter ==
    /\ tsPc = "poll" /\ tlListener = "notified"
    /\ tlListener' = "none"
    /\ UNCHANGED <<active, tables, emit_initially, dirty, tsPc, nEmitted, nMatching,
                   nBatches>>

\* The first clear_dirty_flag of the loop (watch.rs line 83).
TS_Clear1 ==
    /\ tsPc = "poll" /\ tlListener = "none"
    /\ IF dirty
         THEN dirty' = FALSE /\ nEmitted' = nEmitted + 1 /\ tsPc' = "poll"
         ELSE UNCHANGED <<dirty, nEmitted>> /\ tsPc' = "listen"
    /\ UNCHANGED <<active, tables, emit_initially, tlListener, nMatching, nBatches>>

\* let waiter = this.state.notifer.listen() (watch.rs line 87).
TS_Listen ==
    /\ tsPc = "listen"
    /\ tlListener' = "listening"
    /\ tsPc' = "clear2"
    /\ UNCHANGED <<active, tables, emit_initially, dirty, nEmitted, nMatching, nBatches>>

\* A mutated poll_next that does not look at the dirty flag again after
\* registering the waiter.
RecheckDirty_Skipped == FALSE

\* The value the second clear_dirty_flag reads (watch.rs line 88).
RecheckDirty == dirty

\* The second clear_dirty_flag (watch.rs line 88): either the event is emitted
\* and the waiter dropped, or the waiter is stored in current_waiter.
TS_Clear2 ==
    /\ tsPc = "clear2"
    /\ IF RecheckDirty
         THEN /\ dirty' = FALSE /\ nEmitted' = nEmitted + 1
              /\ tlListener' = "none"
         ELSE UNCHANGED <<dirty, nEmitted, tlListener>>
    /\ tsPc' = "poll"
    /\ UNCHANGED <<active, tables, emit_initially, nMatching, nBatches>>

\* Drop for PendingListener: takes the lock of `active` and removes the state.
TS_Drop ==
    /\ tsPc = "poll"
    /\ nuPc = "idle"
    /\ active' = <<>>
    /\ tsPc' = "dropped"
    /\ tlListener' = "none"
    /\ UNCHANGED <<tables, emit_initially, dirty, nEmitted, nMatching, nBatches>>

TableStreamStep ==
    \/ TS_PollWaiter
    \/ TS_Clear1
    \/ TS_Listen
    \/ TS_Clear2

(***************************************************************************)
(* CallbackListeners: util/raw_listener.rs                                 *)
(***************************************************************************)
CallbackIds == {1, 2}

\* retain(|listener| !Arc::ptr_eq(&listener.listener, &self.listener))
RECURSIVE RemoveId(_, _)
RemoveId(list, id) ==
    IF list = <<>> THEN <<>>
    ELSE IF Head(list).id = id THEN RemoveId(Tail(list), id)
    ELSE <<Head(list)>> \o RemoveId(Tail(list), id)

RemoveAt(list, i) == SubSeq(list, 1, i - 1) \o SubSeq(list, i + 1, Len(list))

\* The handles a callback drops while it runs: drop stores the flag, and its
\* try_lock fails, because the notify pass holds the lock of raw_listeners.
DropInsideCallback(D) ==
    /\ deactivated' = [i \in CallbackIds |-> deactivated[i] \/ i \in D]
    /\ handlePc' = [i \in CallbackIds |-> IF i \in D THEN "dropped" ELSE handlePc[i]]

\* One element of the retain pass of notify_listeners: a listener whose key
\* matches is invoked, and is removed when it is deactivated afterwards.
NU_CallbackStep ==
    /\ nuPc = "callbacks"
    /\ cbIdx <= Len(raw_listeners)
    /\ LET l == raw_listeners[cbIdx] IN
         IF Intersects(l.key, nuUpdates)
           THEN /\ cbInvoked' = [cbInvoked EXCEPT ![l.id] = @ + 1]
                /\ \E D \in SUBSET {i \in CallbackIds : handlePc[i] = "alive"} :
                      DropInsideCallback(D)
                /\ IF deactivated'[l.id]
                     THEN raw_listeners' = RemoveAt(raw_listeners, cbIdx) /\ cbIdx' = cbIdx
                     ELSE raw_listeners' = raw_listeners /\ cbIdx' = cbIdx + 1
           ELSE /\ cbIdx' = cbIdx + 1
                /\ UNCHANGED <<raw_listeners, deactivated, handlePc, cbInvoked>>
    /\ UNCHANGED <<nuPc, nuUpdates, nNotifications>>
    /\ UNCHANGED watchVars

\* Drop for CallbackListenerHandle on another thread, first statement:
\* self.deactivated.store(true).
CB_DropStore(id) ==
    /\ handlePc[id] = "alive"
    /\ handlePc' = [handlePc EXCEPT ![id] = "storing"]
    /\ deactivated' = [deactivated EXCEPT ![id] = TRUE]
    /\ UNCHANGED <<raw_listeners, cbIdx, cbInvoked>>
    /\ UNCHANGED <<notifyVars, watchVars>>

\* Drop for CallbackListenerHandle, the try_lock: the listener is removed only
\* when no notify pass holds the lock.
CB_DropTryLock(id) ==
    /\ handlePc[id] = "storing"
    /\ handlePc' = [handlePc EXCEPT ![id] = "dropped"]
    /\ raw_listeners' = IF nuPc = "callbacks" THEN raw_listeners
                        ELSE RemoveId(raw_listeners, id)
    /\ UNCHANGED <<cbIdx, deactivated, cbInvoked>>
    /\ UNCHANGED <<notifyVars, watchVars>>

(***************************************************************************)
(* SyncStatus::update as a caller other than a status stream sees it: the  *)
(* new snapshot is a new revision of the current one with the mutator      *)
(* applied. The revisions and their flags are followed in SpecStatus.      *)
(***************************************************************************)
PublishStatus(m) ==
    /\ statusData' = ApplyMutator(new_revision(statusData), m)
    /\ UNCHANGED <<data, is_invalidated, statusLock, updOld, last_data, listener, wsPc,
                   emittedStatus>>

(***************************************************************************)
(* The CRUD queue                                                          *)
(***************************************************************************)
\* i64::MAX in the source; here the largest integer of the model checker.
MAX_OP_ID == 2147483647

NoLocalBucket == -1

Checkpoints == 1..MaxCheckpoint

\* UPDATE ps_buckets SET target_op = ? WHERE name = '$local'
UpdateLocalTarget(op) == IF target_op = NoLocalBucket THEN NoLocalBucket ELSE op

\* A committed local write: the triggers of the core extension insert a row into
\* ps_crud, which advances its sequence, and reset the target of $local.
LocalWrite ==
    /\ crud_seq < MaxWrites
    /\ crud_seq' = crud_seq + 1
    /\ ps_crud' = ps_crud \cup {crud_seq + 1}
    /\ target_op' = MAX_OP_ID
    /\ customTarget' = FALSE
    /\ UNCHANGED uploadVars

\* A mutated completion that keeps the row with the id last_client_id.
complete_crud_items_OffByOne(last_client_id, checkpoint) ==
    /\ ps_crud' = {id \in ps_crud : id >= last_client_id}
    /\ target_op' = UpdateLocalTarget(MAX_OP_ID)
    /\ customTarget' = FALSE
    /\ UNCHANGED crud_seq
    /\ UNCHANGED uploadVars

\* InnerPowerSyncState::complete_crud_items, one writer transaction.
\* checkpoint 0 stands for None.
complete_crud_items(last_client_id, checkpoint) ==
    LET remaining == {id \in ps_crud : id > last_client_id}
        useCheckpoint == checkpoint # 0 /\ remaining = {}
    IN  /\ ps_crud' = remaining
        /\ target_op' = UpdateLocalTarget(IF useCheckpoint THEN checkpoint ELSE MAX_OP_ID)
        /\ customTarget' = (target_op # NoLocalBucket /\ useCheckpoint)
        /\ UNCHANGED crud_seq
        /\ UNCHANGED uploadVars

CompleteCrud ==
    \E last \in 1..crud_seq, checkpoint \in {0} \cup Checkpoints :
        complete_crud_items(last, checkpoint)

(***************************************************************************)
(* CrudUpload::run                                                         *)
(***************************************************************************)
\* read_oldest_crud_item_id: SELECT id FROM ps_crud ORDER BY id LIMIT 1, 0 for None.
read_oldest_crud_item_id ==
    IF ps_crud = {} THEN 0 ELSE CHOOSE id \in ps_crud : \A other \in ps_crud : id <= other

\* UploadActor::start_upload: a new run.
UploadStart ==
    /\ upPc \in {"idle", "ok", "failed"}
    /\ upPc' = "oldest"
    /\ last_item_id' = 0
    /\ upError' = "none"
    /\ observed' = <<>>
    /\ uploadCalls' = <<>>
    /\ crud_sequence' = 0
    /\ write_checkpoint' = 0
    /\ UNCHANGED crudVars
    /\ UNCHANGED statusVars

\* The errors a run returns: the argument error of the head of the loop, the
\* argument error of PowerSyncCredentials::parsed_endpoint (the endpoint is not
\* a base URL), and any other error.
UploadErrors == {"DuplicateItem", "InvalidEndpoint", "Other"}

IsArgumentError(e) == e \in {"DuplicateItem", "InvalidEndpoint"}

\* A mutated loop that never takes an item for the one before.
IsDuplicate_Never(item) == FALSE

\* if last_item_id == Some(item)
IsDuplicate(item) == last_item_id = item

\* The head of the while loop: an item seen twice in a row fails the run,
\* another item sets the status to Uploading, an empty queue ends the loop.
UploadOldest ==
    /\ upPc = "oldest"
    /\ LET item == read_oldest_crud_item_id IN
         IF item = 0
           THEN /\ upPc' = "bucket"
                /\ UNCHANGED <<last_item_id, runVars>>
                /\ UNCHANGED statusVars
           ELSE IF IsDuplicate(item)
             THEN /\ upPc' = "failed"
                  /\ upError' = "DuplicateItem"
                  /\ observed' = Append(observed, item)
                  /\ UNCHANGED <<last_item_id, uploadCalls>>
                  /\ UNCHANGED statusVars
             ELSE /\ upPc' = "upload"
                  /\ last_item_id' = item
                  /\ observed' = Append(observed, item)
                  /\ uploadCalls' = Append(uploadCalls, item)
                  /\ UNCHANGED upError
                  /\ PublishStatus([op |-> "set_upload_state", arg |-> "Uploading"])
    /\ UNCHANGED <<crud_sequence, write_checkpoint>>
    /\ UNCHANGED crudVars

\* connector.upload_data() returns, with success or with an error.
UploadData ==
    /\ upPc = "upload"
    /\ \/ upPc' = "oldest" /\ UNCHANGED runVars
       \/ upPc' = "failed" /\ upError' = "Other" /\ UNCHANGED <<observed, uploadCalls>>
    /\ UNCHANGED <<last_item_id, crud_sequence, write_checkpoint>>
    /\ UNCHANGED crudVars
    /\ UNCHANGED statusVars

\* sequence_for_checkpoint, first query: is the target of $local MAX_OP_ID?
UploadCheckBucket ==
    /\ upPc = "bucket"
    /\ upPc' = IF target_op = MAX_OP_ID THEN "sequence" ELSE "ok"
    /\ UNCHANGED runVars
    /\ UNCHANGED <<last_item_id, crud_sequence, write_checkpoint>>
    /\ UNCHANGED crudVars
    /\ UNCHANGED statusVars

\* sequence_for_checkpoint, second query: ps_crud_sequence on the reader.
UploadCaptureSequence ==
    /\ upPc = "sequence"
    /\ IF crud_seq = 0
         THEN upPc' = "ok" /\ UNCHANGED crud_sequence
         ELSE upPc' = "fetch" /\ crud_sequence' = crud_seq
    /\ UNCHANGED runVars
    /\ UNCHANGED <<last_item_id, write_checkpoint>>
    /\ UNCHANGED crudVars
    /\ UNCHANGED statusVars

\* get_write_checkpoint: the service answers with a checkpoint, or the request
\* fails, or write_checkpoint returns the argument error of parsed_endpoint.
UploadFetchCheckpoint ==
    /\ upPc = "fetch"
    /\ \/ /\ \E cp \in Checkpoints : write_checkpoint' = cp /\ upPc' = "complete"
          /\ UNCHANGED runVars
       \/ /\ upPc' = "failed"
          /\ upError' \in {"InvalidEndpoint", "Other"}
          /\ UNCHANGED <<write_checkpoint, observed, uploadCalls>>
    /\ UNCHANGED <<last_item_id, crud_sequence>>
    /\ UNCHANGED crudVars
    /\ UNCHANGED statusVars

\* A mutated complete that commits whatever the sequence is.
SequenceUnchanged_Unchecked == TRUE

\* PendingCheckpointRequest::complete: seq_after == self.crud_sequence.
SequenceUnchanged == crud_seq = crud_sequence

\* PendingCheckpointRequest::complete, one writer transaction.
UploadComplete ==
    /\ upPc = "complete"
    /\ upPc' = "ok"
    /\ IF read_oldest_crud_item_id = 0 /\ SequenceUnchanged
         THEN /\ target_op' = UpdateLocalTarget(write_checkpoint)
              /\ customTarget' = FALSE
         ELSE UNCHANGED <<target_op, customTarget>>
    /\ UNCHANGED <<ps_crud, crud_seq>>
    /\ UNCHANGED <<last_item_id, crud_sequence, write_checkpoint, runVars>>
    /\ UNCHANGED statusVars

UploadRunStep ==
    \/ UploadOldest
    \/ UploadData
    \/ UploadCheckBucket
    \/ UploadCaptureSequence
    \/ UploadFetchCheckpoint
    \/ UploadComplete

(***************************************************************************)
(* DownloadClient::run: sync/download/sync_iteration.rs                    *)
(***************************************************************************)
SyncOptionsSet == {1}

Instructions ==
    {"LogLine", "UpdateSyncStatus", "EstablishSyncStream", "FetchCredentials",
     "CloseSyncStream_hide", "CloseSyncStream", "FlushFileSystem", "DidCompleteSync"}

IsClose(instr) == instr \in {"CloseSyncStream_hide", "CloseSyncStream"}

InstructionLists ==
    UNION {[1..n -> Instructions] : n \in 0..MaxInstructions}

\* What powersync_control may answer: any instruction list; the answer to
\* `stop` tears the iteration down and so holds a CloseSyncStream.
ControlReply(event) ==
    IF event = "Stop"
      THEN {l \in InstructionLists : \E k \in 1..Len(l) : l[k] = "CloseSyncStream"}
      ELSE InstructionLists

NoResult == [kind |-> "none", e |-> None, hide |-> FALSE]

\* DownloadActor::start_iteration: a new event channel holding Start, a new
\* DownloadClient, state Running.
start_iteration ==
    /\ send_events' = <<"Start">>
    /\ forwarding' = None
    /\ state' = "Running"
    /\ timeout' = None
    /\ iterPc' = "recv"
    /\ instructions' = <<>>
    /\ stream' = "none"
    /\ result' = NoResult

\* The iteration future has completed: the DownloadClient, its event channel
\* and the forwarding request are dropped.
IterationDropped ==
    /\ send_events' = <<>>
    /\ forwarding' = None
    /\ iterPc' = "none"
    /\ instructions' = <<>>
    /\ stream' = "none"

\* handle_event, Event::SyncIterationComplete(close).
OnIterationComplete(hide) ==
    /\ IterationDropped
    /\ state' = "WaitingForReconnect"
    /\ timeout' = IF hide THEN "zero" ELSE "delay"
    /\ result' = [kind |-> "close", e |-> None, hide |-> hide]
    /\ UNCHANGED <<commands, commandsClosed, options, disconnectSeen>>
    /\ UNCHANGED statusVars

\* A mutated error branch that does not store the error.
ErrorMutator_Dropped(e) == [op |-> "noop", arg |-> None]

\* handle_event, Event::SyncIterationError(e): the mutator handed to update.
ErrorMutator(e) == [op |-> "set_download_error", arg |-> e]

\* handle_event, Event::SyncIterationError(e).
OnIterationError(e) ==
    /\ IterationDropped
    /\ PublishStatus(ErrorMutator(e))
    /\ state' = "WaitingForReconnect"
    /\ timeout' = "delay"
    /\ result' = [kind |-> "err", e |-> e, hide |-> FALSE]
    /\ UNCHANGED <<commands, commandsClosed, options, disconnectSeen>>

\* Instructions of the last control call are left to execute.
Pending == state = "Running" /\ instructions # <<>>

\* A mutated loop that takes the next event while instructions are left.
LoopAtEvent_Early == iterPc = "recv"

\* The iteration is at the head of the 'event loop: the for loop over the
\* instructions of the previous event has run to its end.
LoopAtEvent == iterPc = "recv" /\ instructions = <<>>

\* The for loop moves past the instruction it has executed.
LoopAdvance == instructions' = Tail(instructions)

\* receive_command, then event.invoke_control(&mut conn)?: the next local event
\* is taken from the channel and handed to the control extension, which returns
\* instructions; or the writer or the control call fails and the iteration ends
\* with the error.
IterReceiveCommand ==
    /\ state = "Running" /\ LoopAtEvent
    /\ send_events # <<>>
    /\ \/ /\ \E l \in ControlReply(Head(send_events)) : instructions' = l
          /\ send_events' = Tail(send_events)
          /\ UNCHANGED <<iterPc, result, stream>>
          /\ UNCHANGED <<state, timeout, forwarding>>
          /\ UNCHANGED statusVars
       \/ \E e \in DownloadErrors : OnIterationError(e)
    /\ UNCHANGED <<commands, commandsClosed, options, disconnectSeen>>

\* receive_on_stream, taken by future::or only when no command is ready: the
\* response stream yields ConnectionEstablished, then its lines, then
\* ResponseStreamEnd; a failed request or read ends the iteration with the error.
IterReceiveLine ==
    /\ state = "Running" /\ LoopAtEvent
    /\ send_events = <<>>
    /\ stream # "none"
    /\ \/ /\ \E l \in InstructionLists : instructions' = l
          /\ stream' \in CASE stream = "connecting" -> {"lines"}
                           [] stream = "lines" -> {"lines", "ended"}
                           [] stream = "ended" -> {"ended"}
          /\ UNCHANGED <<iterPc, result>>
          /\ UNCHANGED <<state, timeout, forwarding, send_events>>
          /\ UNCHANGED statusVars
       \/ /\ stream = "lines"
          /\ \E e \in DownloadErrors : OnIterationError(e)
    /\ UNCHANGED <<commands, commandsClosed, options, disconnectSeen>>

\* One instruction of the for loop.
IterExec ==
    /\ Pending /\ iterPc = "recv"
    /\ LET instr == Head(instructions) IN
         CASE instr = "UpdateSyncStatus" ->
                /\ \E core \in CoreStatuses :
                      PublishStatus([op |-> "update_from_core", arg |-> core])
                /\ LoopAdvance
                /\ UNCHANGED <<iterPc, stream, result>>
                /\ UNCHANGED <<state, send_events, forwarding, timeout>>
           [] instr = "DidCompleteSync" ->
                /\ PublishStatus([op |-> "clear_download_errors", arg |-> None])
                /\ LoopAdvance
                /\ UNCHANGED <<iterPc, stream, result>>
                /\ UNCHANGED <<state, send_events, forwarding, timeout>>
           [] instr = "EstablishSyncStream" ->
                /\ iterPc' = "credentials"
                /\ UNCHANGED <<instructions, stream, result>>
                /\ UNCHANGED <<state, send_events, forwarding, timeout>>
                /\ UNCHANGED statusVars
           [] IsClose(instr) ->
                OnIterationComplete(instr = "CloseSyncStream_hide")
           [] OTHER ->
                /\ LoopAdvance
                /\ UNCHANGED <<iterPc, stream, result>>
                /\ UNCHANGED <<state, send_events, forwarding, timeout>>
                /\ UNCHANGED statusVars
    /\ UNCHANGED <<commands, commandsClosed, options, disconnectSeen>>

\* establish_sync_stream: connector.fetch_credentials() returns; with
\* credentials the request stream replaces self.stream.
IterCredentials ==
    /\ state = "Running" /\ iterPc = "credentials"
    /\ \/ /\ stream' = "connecting"
          /\ iterPc' = "trigger"
          /\ UNCHANGED <<instructions, result>>
          /\ UNCHANGED <<state, send_events, forwarding, timeout>>
          /\ UNCHANGED statusVars
       \/ \E e \in DownloadErrors : OnIterationError(e)
    /\ UNCHANGED <<commands, commandsClosed, options, disconnectSeen>>

\* self.db.sync.trigger_crud_uploads().await returns.
IterTriggered ==
    /\ state = "Running" /\ iterPc = "trigger"
    /\ iterPc' = "recv"
    /\ LoopAdvance
    /\ UNCHANGED <<stream, result>>
    /\ UNCHANGED actorVars
    /\ UNCHANGED statusVars

(***************************************************************************)
(* DownloadActor::handle_event: sync/download/actor.rs                     *)
(***************************************************************************)
Commands ==
    [cmd : {"Connect"}, arg : SyncOptionsSet]
      \cup [cmd : {"Disconnect", "ResolveOfflineSyncStatusIfNotConnected",
                   "SubscriptionsChanged", "CrudUploadComplete"}, arg : {0}]

\* SyncCoordinator::download_actor_request: a request enters the channel.
SendCommand(c) ==
    /\ ~commandsClosed
    /\ Len(commands) < 1
    /\ commands' = Append(commands, c)
    /\ UNCHANGED <<state, commandsClosed, options, send_events, forwarding, timeout,
                   disconnectSeen>>
    /\ UNCHANGED iterVars
    /\ UNCHANGED statusVars

\* The last database handle is dropped.
CloseCommands ==
    /\ ~commandsClosed
    /\ commandsClosed' = TRUE
    /\ UNCHANGED <<state, commands, options, send_events, forwarding, timeout,
                   disconnectSeen>>
    /\ UNCHANGED iterVars
    /\ UNCHANGED statusVars

\* The ghost of the claim about disconnects: what receiving c makes of it.
SeenAfter(c) ==
    IF c.cmd = "Connect" THEN FALSE
    ELSE IF c.cmd = "Disconnect" /\ state \in {"Running", "WaitingForReconnect"} THEN TRUE
    ELSE disconnectSeen

\* State Idle: the next command is received.
ActorIdle ==
    /\ state = "Idle"
    /\ commands # <<>>
    /\ LET c == Head(commands) IN
         /\ commands' = Tail(commands)
         /\ disconnectSeen' = SeenAfter(c)
         /\ CASE c.cmd = "Connect" ->
                   /\ options' = c.arg
                   /\ start_iteration
                   /\ UNCHANGED statusVars
              [] c.cmd = "ResolveOfflineSyncStatusIfNotConnected" ->
                   \* update installs the new revision also when
                   \* resolve_offline_state fails.
                   /\ \/ \E core \in CoreStatuses :
                            PublishStatus([op |-> "update_from_core", arg |-> core])
                      \/ PublishStatus([op |-> "noop", arg |-> None])
                   /\ UNCHANGED <<state, options, send_events, forwarding, timeout>>
                   /\ UNCHANGED iterVars
              [] OTHER ->
                   /\ UNCHANGED <<state, options, send_events, forwarding, timeout>>
                   /\ UNCHANGED iterVars
                   /\ UNCHANGED statusVars
    /\ UNCHANGED commandsClosed

\* State Idle, the channel is closed: Stopped.
ActorIdleClosed ==
    /\ state = "Idle"
    /\ commands = <<>> /\ commandsClosed
    /\ state' = "Stopped"
    /\ UNCHANGED <<commands, commandsClosed, options, send_events, forwarding, timeout,
                   disconnectSeen>>
    /\ UNCHANGED iterVars
    /\ UNCHANGED statusVars

\* The iteration is inside its for loop and not at an await: it runs on the
\* task of the actor, whose forwarding request is polled only once the
\* iteration returns Pending.
InForLoop == Pending /\ iterPc = "recv"

\* send_events.send(event).await: the event enters the channel, or the
\* forwarding request stays blocked on the full channel.
Forward(event) ==
    IF Len(send_events) < 1
      THEN send_events' = Append(send_events, event) /\ forwarding' = None
      ELSE send_events' = send_events /\ forwarding' = event

ForwardedEvent(c) ==
    CASE c.cmd = "SubscriptionsChanged" -> "UpdateSubscriptions"
      [] c.cmd = "CrudUploadComplete" -> "CompletedUpload"
      [] c.cmd = "Disconnect" -> "Stop"
      [] OTHER -> None

\* State Running, forwarding_request: a command is received and forwarded.
ActorRunning ==
    /\ state = "Running" /\ ~InForLoop
    /\ forwarding = None
    /\ commands # <<>>
    /\ LET c == Head(commands) IN
         /\ commands' = Tail(commands)
         /\ disconnectSeen' = SeenAfter(c)
         /\ IF ForwardedEvent(c) = None
              THEN UNCHANGED <<send_events, forwarding>>
              ELSE Forward(ForwardedEvent(c))
    /\ UNCHANGED <<state, commandsClosed, options, timeout>>
    /\ UNCHANGED iterVars
    /\ UNCHANGED statusVars

\* State Running, forwarding_request on a closed channel: Stop is forwarded.
ActorRunningClosed ==
    /\ state = "Running" /\ ~InForLoop
    /\ forwarding = None
    /\ commands = <<>> /\ commandsClosed
    /\ Forward("Stop")
    /\ UNCHANGED <<state, commands, commandsClosed, options, timeout, disconnectSeen>>
    /\ UNCHANGED iterVars
    /\ UNCHANGED statusVars

\* State Running: the blocked send of forwarding_request goes through.
ActorForwardBlocked ==
    /\ state = "Running" /\ ~InForLoop
    /\ forwarding # None
    /\ Len(send_events) < 1
    /\ send_events' = Append(send_events, forwarding)
    /\ forwarding' = None
    /\ UNCHANGED <<state, commands, commandsClosed, options, timeout, disconnectSeen>>
    /\ UNCHANGED iterVars
    /\ UNCHANGED statusVars

\* State WaitingForReconnect, wait_for_disconnect_request: a Disconnect leads
\* to Idle, every other command is dropped.
ActorWaiting ==
    /\ state = "WaitingForReconnect"
    /\ commands # <<>>
    /\ LET c == Head(commands) IN
         /\ commands' = Tail(commands)
         /\ disconnectSeen' = SeenAfter(c)
         /\ IF c.cmd = "Disconnect"
              THEN state' = "Idle" /\ timeout' = None /\ result' = NoResult
              ELSE UNCHANGED <<state, timeout, result>>
    /\ UNCHANGED <<commandsClosed, options, send_events, forwarding>>
    /\ UNCHANGED <<iterPc, instructions, stream>>
    /\ UNCHANGED statusVars

\* State WaitingForReconnect, the channel is closed: Idle.
ActorWaitingClosed ==
    /\ state = "WaitingForReconnect"
    /\ commands = <<>> /\ commandsClosed
    /\ state' = "Idle"
    /\ timeout' = None
    /\ result' = NoResult
    /\ UNCHANGED <<commands, commandsClosed, options, send_events, forwarding,
                   disconnectSeen>>
    /\ UNCHANGED <<iterPc, instructions, stream>>
    /\ UNCHANGED statusVars

\* State WaitingForReconnect, Event::TimeoutExpired: the iteration is started
\* again with the stored options.
ActorTimeoutExpired ==
    /\ state = "WaitingForReconnect"
    /\ start_iteration
    /\ UNCHANGED <<commands, commandsClosed, options, disconnectSeen>>
    /\ UNCHANGED statusVars

\* The upload actor publishes its state (upload.rs, set_upload_state).
UploadStatusChange ==
    /\ \E st \in UploadStates : PublishStatus([op |-> "set_upload_state", arg |-> st])
    /\ UNCHANGED actorVars
    /\ UNCHANGED iterVars

(***************************************************************************)
(* SyncStreamTracker and StreamSubscription: db/streams.rs                 *)
(***************************************************************************)
StreamKeys == {"s1", "s2"}

Subscriptions == 1..MaxSubscriptions

\* streams.keys().cloned().collect()
ActiveKeys(map) == {k \in StreamKeys : map[k] # 0}

\* SyncStreamTracker::reference_stream, under the lock of the tracker, called by
\* subscribe_with: a group that can still be upgraded is shared, otherwise a
\* new group (named after the call that creates it) replaces the entry.
Subscribe(h, k) ==
    /\ subPc[h] = "none"
    /\ subKey' = [subKey EXCEPT ![h] = k]
    /\ IF streams[k] # 0 /\ strong[streams[k]] > 0
         THEN /\ subGroup' = [subGroup EXCEPT ![h] = streams[k]]
              /\ strong' = [strong EXCEPT ![streams[k]] = @ + 1]
              /\ subPc' = [subPc EXCEPT ![h] = "alive"]
              /\ UNCHANGED <<streams, subChanged>>
         ELSE /\ subGroup' = [subGroup EXCEPT ![h] = h]
              /\ strong' = [strong EXCEPT ![h] = 1]
              /\ streams' = [streams EXCEPT ![k] = h]
              /\ subChanged' = [subChanged EXCEPT ![h] = ActiveKeys(streams')]
              /\ subPc' = [subPc EXCEPT ![h] = "changed"]
    /\ UNCHANGED sentChanges

\* subscribe_with: handle_subscriptions_changed(changed).await, then the
\* StreamSubscription is returned.
SubscribeNotify(h) ==
    /\ subPc[h] = "changed"
    /\ sentChanges' = Append(sentChanges, subChanged[h])
    /\ subPc' = [subPc EXCEPT ![h] = "alive"]
    /\ UNCHANGED <<streams, strong, subKey, subGroup, subChanged>>

\* A StreamSubscription is dropped: the strong count of its group goes down;
\* the caller that takes it to zero runs the drop of the group.
DropSubscription(h) ==
    /\ subPc[h] = "alive"
    /\ strong' = [strong EXCEPT ![subGroup[h]] = @ - 1]
    /\ subPc' = [subPc EXCEPT ![h] =
                    IF strong[subGroup[h]] = 1 THEN "groupdrop" ELSE "dropped"]
    /\ UNCHANGED <<streams, subKey, subGroup, subChanged, sentChanges>>

\* A mutated drop that removes whatever entry the key has.
IsOwnEntry_Any(g, k) == TRUE

\* Drop for StreamSubscriptionGroup: Weak::ptr_eq(&key, group).
IsOwnEntry(g, k) == streams[k] = g

\* Drop for StreamSubscriptionGroup, under the lock of the tracker: the entry
\* of the key is removed when it is still the one of this group.
GroupDrop(h) ==
    /\ subPc[h] = "groupdrop"
    /\ streams' = IF streams[subKey[h]] # 0 /\ IsOwnEntry(subGroup[h], subKey[h])
                    THEN [streams EXCEPT ![subKey[h]] = 0]
                    ELSE streams
    /\ subPc' = [subPc EXCEPT ![h] = "dropped"]
    /\ UNCHANGED <<strong, subKey, subGroup, subChanged, sentChanges>>

(***************************************************************************)
(* CrudTransactionStream: db/crud.rs                                       *)
(***************************************************************************)
\* last.unwrap_or(-1)
NoItem == -1

MinOf(S) == CHOOSE x \in S : \A y \in S : x <= y

\* A committed write transaction of n rows on tracked tables: the triggers
\* insert n rows with consecutive ids and the id of the transaction into
\* ps_crud, and the target of $local is reset.
WriteTransaction(n) ==
    /\ Len(writtenSizes) < MaxTransactions
    /\ crudTx' = crudTx \o [i \in 1..n |-> Len(writtenSizes) + 1]
    /\ writtenSizes' = Append(writtenSizes, n)
    /\ ps_crud' = ps_crud \cup (crud_seq + 1 .. crud_seq + n)
    /\ crud_seq' = crud_seq + n
    /\ target_op' = MAX_OP_ID
    /\ customTarget' = FALSE
    /\ txsQuiet' = FALSE
    /\ UNCHANGED <<txs_last_item_id, yielded, txsEnded, completedId, afterComplete>>
    /\ UNCHANGED uploadVars

\* A mutated join that ignores the transaction id.
SameTransaction_Any(a, b) == TRUE

\* WHERE crud_entries.tx_id = ps_crud.tx_id
SameTransaction(a, b) == crudTx[a] = crudTx[b]

\* The recursive part of CrudTransactionStream::SQL: the row with rowid
\* id + 1 joins when it has the transaction id of the row before it.
RECURSIVE CrudEntriesFrom(_)
CrudEntriesFrom(id) ==
    IF id + 1 \in ps_crud /\ SameTransaction(id, id + 1)
      THEN <<id>> \o CrudEntriesFrom(id + 1)
      ELSE <<id>>

\* CrudTransactionStream::SQL: the rows of the query for the parameter last,
\* starting at min(id) of the rows with id > last.
CrudEntriesAfter(last) ==
    LET later == {id \in ps_crud : id > last}
    IN  IF later = {} THEN <<>> ELSE CrudEntriesFrom(MinOf(later))

\* CrudTransactionStream::next_transaction: the transaction built from the
\* rows, its id and last_item_id taken from the last row; crud <<>> for None.
next_transaction(last) ==
    LET rows == CrudEntriesAfter(last)
    IN  IF rows = <<>>
          THEN [id |-> 0, last_item_id |-> NoItem, crud |-> <<>>]
          ELSE [id |-> crudTx[rows[Len(rows)]],
                last_item_id |-> rows[Len(rows)],
                crud |-> rows]

\* PowerSyncDatabase::crud_transactions: CrudTransactionStream::new.
CrudTransactions ==
    /\ txs_last_item_id' = NoItem
    /\ yielded' = <<>>
    /\ txsEnded' = FALSE
    /\ txsQuiet' = TRUE
    /\ UNCHANGED <<crudTx, writtenSizes, completedId, afterComplete>>
    /\ UNCHANGED <<crudVars, uploadVars>>

\* CrudTransactionStream::poll_next, a poll that is ready.
PollNext ==
    LET tx == next_transaction(txs_last_item_id)
    IN  /\ IF tx.crud = <<>>
             THEN /\ txsEnded' = TRUE
                  /\ UNCHANGED <<txs_last_item_id, yielded, afterComplete>>
             ELSE /\ txs_last_item_id' = tx.last_item_id
                  /\ yielded' = Append(yielded, tx)
                  /\ afterComplete' = (completedId > 0)
                  /\ UNCHANGED txsEnded
        /\ UNCHANGED <<crudTx, writtenSizes, txsQuiet, completedId>>
        /\ UNCHANGED <<crudVars, uploadVars>>

\* CrudTransaction::complete_internal on a transaction the stream returned;
\* checkpoint 0 is complete(), another one complete_with_checkpoint.
CompleteTransaction ==
    \E i \in 1..Len(yielded), checkpoint \in {0} \cup Checkpoints :
        /\ complete_crud_items(yielded[i].last_item_id, checkpoint)
        /\ completedId' = IF yielded[i].last_item_id > completedId
                            THEN yielded[i].last_item_id ELSE completedId
        /\ afterComplete' = FALSE
        /\ txsQuiet' = FALSE
        /\ UNCHANGED <<crudTx, writtenSizes, txs_last_item_id, yielded, txsEnded>>

\* PowerSyncDatabase::complete_crud_items called with an id of the caller's.
CompleteItems ==
    \E last \in 1..crud_seq :
        /\ complete_crud_items(last, 0)
        /\ completedId' = IF last > completedId THEN last ELSE completedId
        /\ afterComplete' = FALSE
        /\ txsQuiet' = FALSE
        /\ UNCHANGED <<crudTx, writtenSizes, txs_last_item_id, yielded, txsEnded>>

(***************************************************************************)
(* complete_crud_items statement by statement: db/internal.rs              *)
(***************************************************************************)
\* self.writer().await? and writer.transaction()?: the call holds the writer
\* and its transaction starts from the committed rows.
CCI_Begin ==
    \E last \in 1..MaxWrites, checkpoint \in {0} \cup Checkpoints :
        /\ cciPc = "none"
        /\ cciPc' = "delete"
        /\ cci_last' = last
        /\ cci_checkpoint' = checkpoint
        /\ txn_ps_crud' = ps_crud
        /\ txn_target_op' = target_op
        /\ local_target_op' = MAX_OP_ID
        /\ cciResult' = "none"
        /\ UNCHANGED crudVars

\* DELETE FROM ps_crud WHERE id <= ?; let mut target_op = MAX_OP_ID
CCI_Delete ==
    /\ cciPc = "delete"
    /\ txn_ps_crud' = {id \in txn_ps_crud : id > cci_last}
    /\ local_target_op' = MAX_OP_ID
    /\ cciPc' = IF cci_checkpoint # 0 THEN "select" ELSE "update"
    /\ UNCHANGED <<cci_last, cci_checkpoint, txn_target_op, cciResult>>
    /\ UNCHANGED crudVars

\* A mutated check that takes the checkpoint whatever is left in ps_crud.
NoRemainingItems_Unchecked(rows) == TRUE

\* stmt.query(params![])?.next()?.is_none() of SELECT 1 FROM ps_crud LIMIT 1
NoRemainingItems(rows) == rows = {}

\* if let Some(write_checkpoint): the target is the checkpoint when no crud
\* item remains.
CCI_Select ==
    /\ cciPc = "select"
    /\ local_target_op' = IF NoRemainingItems(txn_ps_crud)
                            THEN cci_checkpoint ELSE local_target_op
    /\ cciPc' = "update"
    /\ UNCHANGED <<cci_last, cci_checkpoint, txn_ps_crud, txn_target_op, cciResult>>
    /\ UNCHANGED crudVars

\* UPDATE ps_buckets SET target_op = ? WHERE name = '$local'
CCI_Update ==
    /\ cciPc = "update"
    /\ txn_target_op' = IF txn_target_op = NoLocalBucket
                          THEN NoLocalBucket ELSE local_target_op
    /\ cciPc' = "commit"
    /\ UNCHANGED <<cci_last, cci_checkpoint, txn_ps_crud, local_target_op, cciResult>>
    /\ UNCHANGED crudVars

\* writer.commit()?; Ok(()): the rows of the transaction become the
\* committed ones.
CCI_Commit ==
    /\ cciPc = "commit"
    /\ ps_crud' = txn_ps_crud
    /\ target_op' = txn_target_op
    /\ customTarget' = (txn_target_op # NoLocalBucket /\ txn_target_op # MAX_OP_ID)
    /\ cciPc' = "none"
    /\ cciResult' = "ok"
    /\ UNCHANGED crud_seq
    /\ UNCHANGED <<cci_last, cci_checkpoint, txn_ps_crud, txn_target_op, local_target_op>>

\* Any of the statements returns an error through `?`: the transaction is
\* dropped without a commit, which rolls it back.
CCI_Fail ==
    /\ cciPc \in {"delete", "select", "update", "commit"}
    /\ cciPc' = "none"
    /\ cciResult' = "err"
    /\ txn_ps_crud' = ps_crud
    /\ txn_target_op' = target_op
    /\ UNCHANGED <<cci_last, cci_checkpoint, local_target_op>>
    /\ UNCHANGED crudVars

\* A local write needs the writer, which the call holds until it returns.
CCI_LocalWrite ==
    /\ cciPc = "none"
    /\ LocalWrite
    /\ UNCHANGED completeVars

(***************************************************************************)
(* UploadActor::handle_event: sync/upload.rs                               *)
(***************************************************************************)
UploadActorCommands == {"Connect", "TriggerCrudUpload", "Disconnect"}

\* UploadActor::connected_state: a new crud_stream, listen(false, {ps_crud}),
\* which has nothing to emit until ps_crud is written.
connected_state ==
    /\ upState' = "Connected"
    /\ crudDirty' = FALSE

\* UploadActor::start_upload: the state holds the future of a new run.
start_upload ==
    /\ upState' = "RunningUpload"
    /\ UploadStart

\* The future of a run is dropped with the state that held it.
DropRun ==
    /\ upPc' = "idle"
    /\ UNCHANGED <<last_item_id, crud_sequence, write_checkpoint, runVars>>
    /\ UNCHANGED crudVars
    /\ UNCHANGED statusVars

NoRunStep ==
    /\ UNCHANGED uploadVars
    /\ UNCHANGED crudVars
    /\ UNCHANGED statusVars

UploadActorEnv == <<upClosed, connectPc, triggerPc, established, disconnectSent>>

\* A mutated Idle that takes any command for a Connect.
LeavesIdle_Any(cmd) == TRUE

\* Idle: only UploadActorCommand::Connect(connector) leaves the state.
LeavesIdle(cmd) == cmd = "Connect"

\* Idle: commands.recv().await; only Connect leaves the state, a closed
\* channel stops the actor.
UploadActorIdle ==
    /\ upState = "Idle"
    /\ IF upCommands # <<>>
         THEN /\ upCommands' = Tail(upCommands)
              /\ IF LeavesIdle(Head(upCommands))
                   THEN connected_state
                   ELSE UNCHANGED <<upState, crudDirty>>
         ELSE /\ upClosed
              /\ upState' = "Stopped"
              /\ UNCHANGED <<upCommands, crudDirty>>
    /\ NoRunStep
    /\ UNCHANGED UploadActorEnv

\* Connected, trigger_by_crud_change wins the race: crud_stream.next().
UploadActorCrudChange ==
    /\ upState = "Connected"
    /\ crudDirty
    /\ crudDirty' = FALSE
    /\ start_upload
    /\ UNCHANGED upCommands
    /\ UNCHANGED UploadActorEnv

\* Connected, trigger_by_command wins the race. On a closed channel the
\* block stores Stopped and returns StartUpload, and the result of
\* start_upload is then assigned to self.state.
UploadActorConnectedCommand ==
    /\ upState = "Connected"
    /\ IF upCommands # <<>>
         THEN /\ upCommands' = Tail(upCommands)
              /\ CASE Head(upCommands) = "Connect" ->
                        connected_state /\ NoRunStep
                   [] Head(upCommands) = "TriggerCrudUpload" ->
                        start_upload /\ UNCHANGED crudDirty
                   [] Head(upCommands) = "Disconnect" ->
                        upState' = "Idle" /\ crudDirty' = FALSE /\ NoRunStep
         ELSE /\ upClosed
              /\ start_upload
              /\ UNCHANGED <<upCommands, crudDirty>>
    /\ UNCHANGED UploadActorEnv

\* A mutated transition that answers the trigger with a new run.
TriggerWhileUploading_Restart ==
    /\ upState' = "RunningUpload"
    /\ UNCHANGED crudDirty
    /\ upPc' = "oldest"
    /\ last_item_id' = 0
    /\ UNCHANGED <<crud_sequence, write_checkpoint, runVars>>
    /\ UNCHANGED crudVars
    /\ UNCHANGED statusVars

\* TriggerCrudUpload => None ("Already in progress, don't start another"):
\* the race returns old_state, the same state with the same future.
TriggerWhileUploading ==
    /\ UNCHANGED <<upState, crudDirty>>
    /\ NoRunStep

\* state_transition_from_command_while_uploading wins the race, in
\* RunningUpload or in WaitingForReconnect: TriggerCrudUpload keeps the state,
\* Connect and Disconnect drop it, a closed channel stops the actor.
UploadActorCommandWhileUploading ==
    /\ upState \in {"RunningUpload", "WaitingForReconnect"}
    /\ IF upCommands # <<>>
         THEN /\ upCommands' = Tail(upCommands)
              /\ CASE Head(upCommands) = "TriggerCrudUpload" ->
                        TriggerWhileUploading
                   [] Head(upCommands) = "Connect" ->
                        connected_state /\ DropRun
                   [] Head(upCommands) = "Disconnect" ->
                        upState' = "Idle" /\ crudDirty' = FALSE /\ DropRun
         ELSE /\ upClosed
              /\ upState' = "Stopped"
              /\ DropRun
              /\ UNCHANGED <<upCommands, crudDirty>>
    /\ UNCHANGED UploadActorEnv

\* RunningUpload polls the future of the run: a step of CrudUpload::run.
UploadActorRunStep ==
    /\ upState = "RunningUpload"
    /\ UploadRunStep
    /\ UNCHANGED upActorVars

\* RunningUpload, upload_done wins the race: Ok leads to Connected with the
\* same crud_stream; Err publishes Error(e) and leads to WaitingForReconnect.
UploadActorDone ==
    /\ upState = "RunningUpload"
    /\ upPc \in {"ok", "failed"}
    /\ IF upPc = "ok"
         THEN /\ upState' = "Connected"
              /\ UNCHANGED statusVars
         ELSE /\ upState' = "WaitingForReconnect"
              /\ PublishStatus([op |-> "set_upload_state", arg |-> "Error"])
    /\ upPc' = "idle"
    /\ UNCHANGED <<last_item_id, crud_sequence, write_checkpoint, runVars>>
    /\ UNCHANGED crudVars
    /\ UNCHANGED <<upCommands, crudDirty>>
    /\ UNCHANGED UploadActorEnv

\* WaitingForReconnect, timeout_expired wins the race: sync_iteration_delay
\* has returned and the actor is Connected with the same crud_stream.
UploadActorTimeout ==
    /\ upState = "WaitingForReconnect"
    /\ upState' = "Connected"
    /\ NoRunStep
    /\ UNCHANGED <<upCommands, crudDirty>>
    /\ UNCHANGED UploadActorEnv

\* A write to ps_crud reaches the crud_stream of a connected actor.
CrudStreamSees ==
    crudDirty' = (crudDirty \/ (upState \notin {"Idle", "Stopped"} /\ ps_crud' # ps_crud))

UploadActorLocalWrite ==
    /\ LocalWrite
    /\ CrudStreamSees
    /\ UNCHANGED statusVars
    /\ UNCHANGED <<upState, upCommands>>
    /\ UNCHANGED UploadActorEnv

\* The connector (or the application) completes crud items.
UploadActorCompleteCrud ==
    /\ CompleteCrud
    /\ CrudStreamSees
    /\ UNCHANGED statusVars
    /\ UNCHANGED <<upState, upCommands>>
    /\ UNCHANGED UploadActorEnv

\* SyncCoordinator::connect, download_actor_request(Connect): the download
\* actor has answered and started its iteration.
ConnectDownload ==
    /\ connectPc = "none"
    /\ ~upClosed
    /\ connectPc' = "upload"
    /\ UNCHANGED <<upState, upCommands, upClosed, crudDirty, triggerPc, established,
                   disconnectSent>>
    /\ NoRunStep

\* SyncCoordinator::connect, upload_actor_request(Connect): the send on the
\* bounded channel completes when the channel has room.
ConnectUpload ==
    /\ connectPc = "upload"
    /\ upCommands = <<>>
    /\ upCommands' = <<"Connect">>
    /\ connectPc' = "done"
    /\ UNCHANGED <<upState, upClosed, crudDirty, triggerPc, established, disconnectSent>>
    /\ NoRunStep

\* DownloadClient::run, EstablishSyncStream: establish_sync_stream returned Ok
\* in the iteration the download actor started for connect().
EstablishSyncStream ==
    /\ connectPc \in {"upload", "done"}
    /\ ~disconnectSent
    /\ triggerPc = "none"
    /\ established < MaxEstablished
    /\ established' = established + 1
    /\ triggerPc' = "send"
    /\ UNCHANGED <<upState, upCommands, upClosed, crudDirty, connectPc, disconnectSent>>
    /\ NoRunStep

\* SyncCoordinator::trigger_crud_uploads, called by the iteration.
TriggerCrudUploads ==
    /\ triggerPc = "send"
    /\ upCommands = <<>>
    /\ upCommands' = <<"TriggerCrudUpload">>
    /\ triggerPc' = "none"
    /\ UNCHANGED <<upState, upClosed, crudDirty, connectPc, established, disconnectSent>>
    /\ NoRunStep

\* SyncCoordinator::disconnect, upload_actor_request(Disconnect), called on a
\* database handle that still exists.
DisconnectUpload ==
    /\ connectPc = "done"
    /\ ~upClosed
    /\ ~disconnectSent
    /\ upCommands = <<>>
    /\ upCommands' = <<"Disconnect">>
    /\ disconnectSent' = TRUE
    /\ UNCHANGED <<upState, upClosed, crudDirty, connectPc, triggerPc, established>>
    /\ NoRunStep

\* The last PowerSyncDatabase is dropped, and with it the senders.
CloseUploadCommands ==
    /\ ~upClosed
    /\ connectPc \in {"none", "done"}
    /\ triggerPc = "none"
    /\ upClosed' = TRUE
    /\ UNCHANGED <<upState, upCommands, crudDirty, connectPc, triggerPc, established,
                   disconnectSent>>
    /\ NoRunStep

(***************************************************************************)
(* ConnectionPool: db/pool.rs                                              *)
(***************************************************************************)
\* PoolState.readers = None (ConnectionPool::single_connection)
NoReaders == -1

Leases == 1..MaxLeases

\* Tables the update hooks report, and one they do not.
TrackedTables == {"users", "ps_crud"}

PoolTables == TrackedTables \cup {"scratch"}

\* writer(), writer_sync(), reader() or reader_sync() is called.
TakeConnection(l) ==
    /\ leasePc[l] = "none"
    /\ \E writer \in BOOLEAN, sync \in BOOLEAN :
          /\ leaseWriter' = [leaseWriter EXCEPT ![l] = writer]
          /\ leaseSync' = [leaseSync EXCEPT ![l] = sync]
    /\ leasePc' = [leasePc EXCEPT ![l] = "waiting"]
    /\ UNCHANGED <<readers, writerLocked, leaseImpl, txOpen, pendingTables,
                   committedTables, leaseWrote, notifications>>

\* take_connection_sync and take_connection_async:
\* if !writer && let Some(readers) = &self.state.readers
UsesReader(l) == ~leaseWriter[l] /\ readers # NoReaders

\* take_reader.recv() (recv_blocking): a pooled reader is received.
TakeReader(l) ==
    /\ leasePc[l] = "waiting"
    /\ UsesReader(l)
    /\ readers > 0
    /\ readers' = readers - 1
    /\ leasePc' = [leasePc EXCEPT ![l] = "held"]
    /\ leaseImpl' = [leaseImpl EXCEPT ![l] = "Reader"]
    /\ UNCHANGED <<writerLocked, leaseWriter, leaseSync, txOpen, pendingTables,
                   committedTables, leaseWrote, notifications>>

\* A mutated lock that is granted while it is held.
WriterAvailable_Always == TRUE

\* writer.lock().await and writer.lock_blocking() return when the mutex is free.
WriterAvailable == ~writerLocked

\* The else branch: the lease is the guard of the writer mutex.
TakeWriter(l) ==
    /\ leasePc[l] = "waiting"
    /\ ~UsesReader(l)
    /\ WriterAvailable
    /\ writerLocked' = TRUE
    /\ leasePc' = [leasePc EXCEPT ![l] = "held"]
    /\ leaseImpl' = [leaseImpl EXCEPT ![l] = "Writer"]
    /\ UNCHANGED <<readers, leaseWriter, leaseSync, txOpen, pendingTables,
                   committedTables, leaseWrote, notifications>>

\* A statement on the leased writer writes table t: the update hook keeps a
\* tracked table with the open transaction, or, in autocommit, as committed.
PoolWrite(l, t) ==
    /\ leasePc[l] = "held" /\ leaseImpl[l] = "Writer"
    /\ IF t \notin TrackedTables
         THEN UNCHANGED <<pendingTables, committedTables, leaseWrote>>
         ELSE IF txOpen
           THEN /\ pendingTables' = pendingTables \cup {t}
                /\ UNCHANGED <<committedTables, leaseWrote>>
           ELSE /\ committedTables' = committedTables \cup {t}
                /\ leaseWrote' = [leaseWrote EXCEPT ![l] = @ \cup {t}]
                /\ UNCHANGED pendingTables
    /\ UNCHANGED <<readers, writerLocked, leasePc, leaseWriter, leaseSync, leaseImpl,
                   txOpen, notifications>>

\* writer.transaction()
PoolBegin(l) ==
    /\ leasePc[l] = "held" /\ leaseImpl[l] = "Writer"
    /\ ~txOpen
    /\ txOpen' = TRUE
    /\ UNCHANGED <<readers, writerLocked, leasePc, leaseWriter, leaseSync, leaseImpl,
                   pendingTables, committedTables, leaseWrote, notifications>>

\* Transaction::commit: the commit hook moves the tables of the transaction
\* to the committed ones.
PoolCommit(l) ==
    /\ leasePc[l] = "held" /\ leaseImpl[l] = "Writer"
    /\ txOpen
    /\ txOpen' = FALSE
    /\ committedTables' = committedTables \cup pendingTables
    /\ leaseWrote' = [leaseWrote EXCEPT ![l] = @ \cup pendingTables]
    /\ pendingTables' = {}
    /\ UNCHANGED <<readers, writerLocked, leasePc, leaseWriter, leaseSync, leaseImpl,
                   notifications>>

\* The Transaction is dropped without a commit (or rolled back): the rollback
\* hook forgets the tables of the transaction.
PoolRollback(l) ==
    /\ leasePc[l] = "held" /\ leaseImpl[l] = "Writer"
    /\ txOpen
    /\ txOpen' = FALSE
    /\ pendingTables' = {}
    /\ UNCHANGED <<readers, writerLocked, leasePc, leaseWriter, leaseSync, leaseImpl,
                   committedTables, leaseWrote, notifications>>

\* A mutated harvest that broadcasts whatever the hooks return.
HasUpdates_Always(updates) == TRUE

\* if updates.tables.len() > 0
HasUpdates(updates) == updates # {}

\* Drop for LeasedWriter: take_update_notifications reads and clears the
\* tables of the hooks and broadcasts them when there is one; then the guard
\* of the mutex is dropped. A Transaction borrows the lease and ends before.
DropLeasedWriter(l) ==
    /\ leasePc[l] = "held" /\ leaseImpl[l] = "Writer"
    /\ ~txOpen
    /\ committedTables' = {}
    /\ notifications' = IF HasUpdates(committedTables)
                          THEN Append(notifications, [lease |-> l, tables |-> committedTables])
                          ELSE notifications
    /\ writerLocked' = FALSE
    /\ leasePc' = [leasePc EXCEPT ![l] = "dropped"]
    /\ UNCHANGED <<readers, leaseWriter, leaseSync, leaseImpl, txOpen, pendingTables,
                   leaseWrote>>

\* A mutated release that loses the connection of the lease.
ReleaseReader_Lost(channel) == channel

\* self.release.send_blocking(connection) on the unbounded channel
ReleaseReader(channel) == channel + 1

\* Drop for LeasedReader: the connection is sent back into the pool.
DropLeasedReader(l) ==
    /\ leasePc[l] = "held" /\ leaseImpl[l] = "Reader"
    /\ readers' = ReleaseReader(readers)
    /\ leasePc' = [leasePc EXCEPT ![l] = "dropped"]
    /\ UNCHANGED <<writerLocked, leaseWriter, leaseSync, leaseImpl, txOpen, pendingTables,
                   committedTables, leaseWrote, notifications>>

(***************************************************************************)
(* BsonObjects: util/bson_split.rs                                         *)
(***************************************************************************)
\* Frames whose little-endian length prefix is their length (at least 5).
ValidFrames == {<<5, 0, 0, 0, 1>>, <<6, 0, 0, 0, 0, 0>>, <<6, 0, 0, 0, 5, 0>>}

\* What follows the last frame: nothing, a header below 5 (3, 4, a negative
\* i32), an input that ends inside a header, or inside a frame.
InvalidHeaders == {<<3, 0, 0, 0>>, <<4, 0, 0, 0>>, <<0, 0, 0, 128>>}

Truncated == {<<5>>, <<5, 0>>, <<6, 0, 0, 0, 0>>}

Tails == {<<>>} \cup InvalidHeaders \cup Truncated

RECURSIVE Concat(_)
Concat(seqs) == IF seqs = <<>> THEN <<>> ELSE Head(seqs) \o Concat(Tail(seqs))

\* impl Default for RemainingBytes
RemainingDefault == [kind |-> "ForSize", n |-> 4]

\* A mutated check that takes every end of the input for the end of a frame.
is_idle_Always(r) == TRUE

\* RemainingBytes::is_idle
is_idle(r) == r.kind = "ForSize" /\ r.n = 4

\* RemainingBytes::consume: (readable, *remaining == 0) and the new self
consume(r, max) ==
    LET readable == IF r.n < max THEN r.n ELSE max
    IN  [read |-> readable, switch |-> r.n - readable = 0,
         self |-> [r EXCEPT !.n = r.n - readable]]

\* i32::from_le_bytes(target[0..4])
from_le_bytes(b) ==
    LET top == IF b[4] >= 128 THEN b[4] - 256 ELSE b[4]
    IN  b[1] + 256 * b[2] + 65536 * b[3] + 16777216 * top

\* The loop of process_bytes over a buffer that is not empty.
RECURSIVE ProcessLoop(_, _, _, _)
ProcessLoop(target, r, b, consumed) ==
    LET c == consume(r, Len(b))
        target2 == target \o SubSeq(b, 1, c.read)
        rest == SubSeq(b, c.read + 1, Len(b))
        consumed2 == consumed + c.read
    IN  IF ~c.switch
          THEN [kind |-> "Pending", bytes |-> <<>>, buf |-> target2, remaining |-> c.self,
                consumed |-> consumed2]
          ELSE IF c.self.kind = "ForSize"
            THEN IF from_le_bytes(target2) < 5
                   THEN [kind |-> "InvalidData", bytes |-> <<>>, buf |-> target2,
                         remaining |-> c.self, consumed |-> consumed2]
                   ELSE ProcessLoop(target2,
                                    [kind |-> "ForObject", n |-> from_le_bytes(target2) - 4],
                                    rest, consumed2)
            ELSE [kind |-> "Ok", bytes |-> target2, buf |-> <<>>,
                  remaining |-> RemainingDefault, consumed |-> consumed2]

\* BsonObjects::process_bytes
process_bytes(target, r, b) ==
    IF Len(b) = 0
      THEN [kind |-> IF is_idle(r) THEN "None" ELSE "UnexpectedEof", bytes |-> <<>>,
            buf |-> target, remaining |-> r, consumed |-> 0]
      ELSE ProcessLoop(target, r, b, 0)

\* One round of the loop of poll_next: poll_fill_buf returns the first n
\* unconsumed bytes (none only at the end of the input), process_bytes runs,
\* the consumed bytes leave the reader. A Pending result polls the reader
\* again; the consumer of the stream stops at None and at an error.
poll_next(n) ==
    /\ bsEnd = "open"
    /\ IF reader = <<>> THEN n = 0 ELSE n \in 1..Len(reader)
    /\ LET p == process_bytes(buf, remainingBytes, SubSeq(reader, 1, n))
       IN  /\ reader' = SubSeq(reader, p.consumed + 1, Len(reader))
           /\ buf' = p.buf
           /\ remainingBytes' = p.remaining
           /\ items' = IF p.kind = "Ok" THEN Append(items, p.bytes) ELSE items
           /\ bsEnd' = IF p.kind \in {"Ok", "Pending"} THEN "open" ELSE p.kind
           /\ straddled' = (straddled \/ (p.kind = "Pending" /\ reader' # <<>>))
    /\ UNCHANGED <<bsFrames, bsTail>>

(***************************************************************************)
(* SyncCoordinator requests and DownloadActor::handle_event with the       *)
(* acknowledgement of every request; the iteration is followed event by    *)
(* event (its instructions are followed in SpecActor).                     *)
(***************************************************************************)
Callers == 1..MaxCallers

\* Two SyncOptions that differ in include_default_streams.
OptionsSet == {1, 2}

\* SyncOptions.include_default_streams
include_default_streams(o) == o = 1

\* The stream keys the callers subscribe to.
CoordKeys == {"s1"}

IdleCaller == [pc |-> "idle", cmd |-> "none", arg |-> 0, key |-> "none", keys |-> {}]

NoRequest == [caller |-> 0, cmd |-> "none", arg |-> 0, keys |-> {}]

\* The channel closed under forwarding_request: Stop is sent for no caller.
ClosedRequest == [caller |-> 0, cmd |-> "Disconnect", arg |-> 0, keys |-> {}]

\* A call of connect(), disconnect() or mark_crud_uploads_completed() begins.
CallCoordinator(c) ==
    /\ ~dlClosed
    /\ callers[c].pc = "idle"
    /\ \E r \in [cmd : {"Connect"}, arg : OptionsSet]
                  \cup [cmd : {"Disconnect", "CrudUploadComplete"}, arg : {0}] :
          callers' = [callers EXCEPT ![c] = [pc |-> "send", cmd |-> r.cmd, arg |-> r.arg,
                                            key |-> "none", keys |-> {}]]
    /\ UNCHANGED <<dlCommands, dlClosed, dlState, dlOptions, dlEvents, dlForward, dlTimeout,
                   dlElapsed, dlStart, dlFirst, dlStarts, dlSubs, dlStream, tracker, coreSubs,
                   statusStreams, lastResolve>>

\* subscribe_with, up to its first request: subscription_command stores the
\* subscription with the core extension, then resolve_offline_sync_status.
subscribe_with(c, k) ==
    /\ ~dlClosed
    /\ callers[c].pc = "idle"
    /\ coreSubs' = coreSubs \cup {k}
    /\ callers' = [callers EXCEPT ![c] =
                      [pc |-> "send", cmd |-> "ResolveOfflineSyncStatusIfNotConnected",
                       arg |-> 0, key |-> k, keys |-> {}]]
    /\ UNCHANGED <<dlCommands, dlClosed, dlState, dlOptions, dlEvents, dlForward, dlTimeout,
                   dlElapsed, dlStart, dlFirst, dlStarts, dlSubs, dlStream, tracker, statusStreams,
                   lastResolve>>

\* download_actor_request: downloads.send(request).await
download_actor_request(c) ==
    /\ callers[c].pc = "send"
    /\ Len(dlCommands) < 1
    /\ dlCommands' = Append(dlCommands, [caller |-> c, cmd |-> callers[c].cmd,
                                        arg |-> callers[c].arg, keys |-> callers[c].keys])
    /\ callers' = [callers EXCEPT ![c].pc = "wait"]
    /\ UNCHANGED <<dlClosed, dlState, dlOptions, dlEvents, dlForward, dlTimeout, dlElapsed,
                   dlStart, dlFirst, dlStarts, dlSubs, dlStream, tracker, coreSubs, statusStreams,
                   lastResolve>>

\* download_actor_request: `let _ = response.await` returns and the call goes
\* on. subscribe_with then references the stream in the tracker and, when that
\* added the key, sends SubscriptionsChanged with the keys the tracker held
\* right after the insertion; every other call returns.
CallContinues(c) ==
    /\ callers[c].pc = "acked"
    /\ IF callers[c].cmd = "ResolveOfflineSyncStatusIfNotConnected"
         THEN /\ tracker' = tracker \cup {callers[c].key}
              /\ callers' = [callers EXCEPT ![c] =
                    IF callers[c].key \in tracker
                      THEN IdleCaller
                      ELSE [pc |-> "send", cmd |-> "SubscriptionsChanged", arg |-> 0,
                            key |-> callers[c].key,
                            keys |-> tracker \cup {callers[c].key}]]
         ELSE /\ callers' = [callers EXCEPT ![c] = IdleCaller]
              /\ UNCHANGED tracker
    /\ UNCHANGED <<dlCommands, dlClosed, dlState, dlOptions, dlEvents, dlForward, dlTimeout,
                   dlElapsed, dlStart, dlFirst, dlStarts, dlSubs, dlStream, coreSubs, statusStreams,
                   lastResolve>>

\* The last StreamSubscription of a key is dropped: its entry leaves the
\* tracker (the reference counts are followed in SpecStreams).
DropStreamGroup(k) ==
    /\ k \in tracker
    /\ tracker' = tracker \ {k}
    /\ UNCHANGED <<callers, dlCommands, dlClosed, dlState, dlOptions, dlEvents, dlForward,
                   dlTimeout, dlElapsed, dlStart, dlFirst, dlStarts, dlSubs, dlStream, coreSubs,
                   statusStreams, lastResolve>>

\* The last database handle is dropped; no call is in progress then, as every
\* call borrows a handle.
DropDatabase ==
    /\ ~dlClosed
    /\ \A c \in Callers : callers[c].pc = "idle"
    /\ dlClosed' = TRUE
    /\ UNCHANGED <<callers, dlCommands, dlState, dlOptions, dlEvents, dlForward, dlTimeout,
                   dlElapsed, dlStart, dlFirst, dlStarts, dlSubs, dlStream, tracker, coreSubs,
                   statusStreams, lastResolve>>

\* command.response.send(()), or the drop of the request with its sender:
\* the caller that awaits the response is released.
Acknowledge(cs, r) ==
    IF r.caller = 0 THEN cs ELSE [cs EXCEPT ![r.caller].pc = "acked"]

\* An event of the iteration; keys is the list of an UpdateSubscriptions.
Ev(type) == [type |-> type, keys |-> {}]

\* The event forwarding_request sends for a request.
EventFor(r) == [type |-> ForwardedEvent(r), keys |-> r.keys]

\* A mutated start that forgets the subscriptions of the tracker.
collect_active_streams_Empty(keys) == {}

\* SyncStreamTracker::collect_active_streams
collect_active_streams(keys) == keys

\* DownloadActor::start_iteration(options)
StartIteration(o) ==
    /\ dlStart' = [include_defaults |-> include_default_streams(o),
                   active_streams |-> collect_active_streams(tracker)]
    /\ dlEvents' = <<Ev("Start")>>
    /\ dlState' = "Running"
    /\ dlForward' = NoRequest
    /\ dlTimeout' = "none"
    /\ dlElapsed' = FALSE
    /\ dlFirst' = None
    /\ dlStarts' = 0
    /\ dlSubs' = {}
    /\ dlStream' = FALSE

\* A mutated actor that refreshes the offline state in no state.
ResolvesOffline_Never(st) == FALSE

\* The arms for ResolveOfflineSyncStatusIfNotConnected: only Idle acts on it.
ResolvesOffline(st) == st = "Idle"

\* A mutated actor that takes the options of every Connect it receives.
AcceptsConnect_Always(st) == TRUE

\* The arms for Connect: only Idle stores the options and starts an iteration.
AcceptsConnect(st) == st = "Idle"

\* State Idle: a request is received.
DlIdle ==
    /\ dlState = "Idle"
    /\ dlCommands # <<>>
    /\ LET r == Head(dlCommands) IN
         /\ dlCommands' = Tail(dlCommands)
         /\ callers' = Acknowledge(callers, r)
         /\ CASE r.cmd = "Connect" /\ AcceptsConnect(dlState) ->
                   /\ dlOptions' = r.arg
                   /\ StartIteration(r.arg)
                   /\ UNCHANGED <<statusStreams, lastResolve>>
              [] r.cmd = "ResolveOfflineSyncStatusIfNotConnected"
                   /\ ResolvesOffline(dlState) ->
                   \* powersync_offline_sync_status() lists the stored
                   \* subscriptions; a failure is logged and swallowed.
                   /\ \/ statusStreams' = coreSubs /\ lastResolve' = "ok"
                      \/ statusStreams' = statusStreams /\ lastResolve' = "err"
                   /\ UNCHANGED <<dlState, dlOptions, dlEvents, dlForward, dlTimeout,
                                  dlElapsed, dlStart, dlFirst, dlStarts, dlSubs, dlStream>>
              [] OTHER ->
                   UNCHANGED <<dlState, dlOptions, dlEvents, dlForward, dlTimeout,
                               dlElapsed, dlStart, dlFirst, dlStarts, dlSubs, dlStream,
                               statusStreams, lastResolve>>
    /\ UNCHANGED <<dlClosed, tracker, coreSubs>>

\* A mutated actor that stays in its state when the channel is closed.
WhenClosed_Stays(st) == st

\* Where a closed command channel leads: Idle stops, and in
\* WaitingForReconnect wait_for_disconnect_request returns as for a Disconnect.
WhenClosed(st) == IF st = "Idle" THEN "Stopped" ELSE "Idle"

\* State Idle, the channel is closed: Stopped.
DlIdleClosed ==
    /\ dlState = "Idle"
    /\ dlCommands = <<>> /\ dlClosed
    /\ dlState' = WhenClosed(dlState)
    /\ UNCHANGED <<callers, dlCommands, dlClosed, dlOptions, dlEvents, dlForward, dlTimeout,
                   dlElapsed, dlStart, dlFirst, dlStarts, dlSubs, dlStream, tracker, coreSubs,
                   statusStreams, lastResolve>>

\* A mutated forwarding that gives the event up when the channel is full.
ForwardFor_TrySend(r) ==
    /\ callers' = Acknowledge(callers, r)
    /\ dlEvents' = IF ForwardedEvent(r) = None \/ Len(dlEvents) >= 1
                     THEN dlEvents
                     ELSE Append(dlEvents, EventFor(r))
    /\ UNCHANGED dlForward

\* send_events.send(event).await inside forwarding_request: the event enters
\* the channel and the request is dropped, or the send waits and the request
\* stays alive with it.
ForwardFor(r) ==
    IF ForwardedEvent(r) = None
      THEN /\ callers' = Acknowledge(callers, r)
           /\ UNCHANGED <<dlEvents, dlForward>>
      ELSE IF Len(dlEvents) < 1
        THEN /\ dlEvents' = Append(dlEvents, EventFor(r))
             /\ callers' = Acknowledge(callers, r)
             /\ UNCHANGED dlForward
        ELSE /\ dlForward' = r
             /\ UNCHANGED <<dlEvents, callers>>

\* State Running, forwarding_request: a request is received; Connect and
\* ResolveOfflineSyncStatusIfNotConnected do nothing, the others are forwarded.
DlForwardingRequest ==
    /\ dlState = "Running"
    /\ dlForward = NoRequest
    /\ dlCommands # <<>>
    /\ dlCommands' = Tail(dlCommands)
    /\ IF Head(dlCommands).cmd = "Connect" /\ AcceptsConnect(dlState)
         THEN /\ dlOptions' = Head(dlCommands).arg
              /\ callers' = Acknowledge(callers, Head(dlCommands))
              /\ UNCHANGED <<dlEvents, dlForward>>
         ELSE /\ ForwardFor(Head(dlCommands))
              /\ UNCHANGED dlOptions
    /\ IF Head(dlCommands).cmd = "ResolveOfflineSyncStatusIfNotConnected"
            /\ ResolvesOffline(dlState)
         THEN statusStreams' = coreSubs /\ lastResolve' = "ok"
         ELSE UNCHANGED <<statusStreams, lastResolve>>
    /\ UNCHANGED <<dlClosed, dlState, dlTimeout, dlElapsed, dlStart, dlFirst, dlStarts, dlSubs,
                   dlStream, tracker, coreSubs>>

\* State Running, forwarding_request on the closed channel: Stop is sent.
DlForwardingClosed ==
    /\ dlState = "Running"
    /\ dlForward = NoRequest
    /\ dlCommands = <<>> /\ dlClosed
    /\ ForwardFor(ClosedRequest)
    /\ UNCHANGED <<dlCommands, dlClosed, dlState, dlOptions, dlTimeout, dlElapsed, dlStart,
                   dlFirst, dlStarts, dlSubs, dlStream, tracker, coreSubs, statusStreams,
                   lastResolve>>

\* State Running: the waiting send of forwarding_request goes through.
DlForwardUnblocked ==
    /\ dlState = "Running"
    /\ dlForward # NoRequest
    /\ Len(dlEvents) < 1
    /\ dlEvents' = Append(dlEvents, EventFor(dlForward))
    /\ callers' = Acknowledge(callers, dlForward)
    /\ dlForward' = NoRequest
    /\ UNCHANGED <<dlCommands, dlClosed, dlState, dlOptions, dlTimeout, dlElapsed, dlStart,
                   dlFirst, dlStarts, dlSubs, dlStream, tracker, coreSubs, statusStreams,
                   lastResolve>>

\* handle_event, Event::SyncIterationComplete and Event::SyncIterationError:
\* the race drops forwarding_request and the request it holds; the event
\* channel goes with the iteration.
IterationEnds(delay) ==
    /\ dlState' = "WaitingForReconnect"
    /\ dlTimeout' = delay
    /\ dlElapsed' = FALSE
    /\ dlEvents' = <<>>
    /\ dlForward' = NoRequest
    /\ callers' = Acknowledge(callers, dlForward)
    /\ dlStream' = FALSE

\* What taking one event leads to: its instructions run to their end (an
\* EstablishSyncStream among them opens the stream), a CloseSyncStream among
\* them ends the iteration with hide_disconnect set or not, or a failure ends
\* it. The reply of the extension to stop holds a CloseSyncStream.
EventOutcome(event, rest) ==
    \/ /\ event.type # "Stop"
       /\ dlEvents' = rest
       /\ dlStream' \in {dlStream, TRUE}
       /\ UNCHANGED <<callers, dlState, dlForward, dlTimeout, dlElapsed>>
    \/ IterationEnds("zero")
    \/ IterationEnds("delay")

\* DownloadClient::run: receive_command yields the next local event.
DlIterationEvent ==
    /\ dlState = "Running"
    /\ dlEvents # <<>>
    /\ dlFirst' = IF dlFirst = None THEN Head(dlEvents).type ELSE dlFirst
    /\ dlStarts' = IF Head(dlEvents).type = "Start" THEN dlStarts + 1 ELSE dlStarts
    /\ dlSubs' = CASE Head(dlEvents).type = "Start" -> dlStart.active_streams
                   [] Head(dlEvents).type = "UpdateSubscriptions" -> Head(dlEvents).keys
                   [] OTHER -> dlSubs
    /\ EventOutcome(Head(dlEvents), Tail(dlEvents))
    /\ UNCHANGED <<dlCommands, dlClosed, dlOptions, dlStart, tracker, coreSubs,
                   statusStreams, lastResolve>>

\* DownloadClient::run: no local event is ready and receive_on_stream yields
\* an event of the response, or its error.
DlStreamEvent ==
    /\ dlState = "Running"
    /\ dlStream /\ dlEvents = <<>>
    /\ dlFirst' = IF dlFirst = None THEN "Line" ELSE dlFirst
    /\ EventOutcome(Ev("Line"), dlEvents)
    /\ UNCHANGED <<dlCommands, dlClosed, dlOptions, dlStart, dlStarts, dlSubs, tracker, coreSubs,
                   statusStreams, lastResolve>>

\* State WaitingForReconnect, wait_for_disconnect_request: Disconnect leads to
\* Idle, every other request is dropped.
DlWaitForDisconnect ==
    /\ dlState = "WaitingForReconnect"
    /\ dlCommands # <<>>
    /\ dlCommands' = Tail(dlCommands)
    /\ callers' = Acknowledge(callers, Head(dlCommands))
    /\ IF Head(dlCommands).cmd = "Connect" /\ AcceptsConnect(dlState)
         THEN dlOptions' = Head(dlCommands).arg
         ELSE UNCHANGED dlOptions
    /\ IF Head(dlCommands).cmd = "Disconnect"
         THEN dlState' = "Idle" /\ dlTimeout' = "none" /\ dlElapsed' = FALSE
         ELSE UNCHANGED <<dlState, dlTimeout, dlElapsed>>
    /\ IF Head(dlCommands).cmd = "ResolveOfflineSyncStatusIfNotConnected"
            /\ ResolvesOffline(dlState)
         THEN statusStreams' = coreSubs /\ lastResolve' = "ok"
         ELSE UNCHANGED <<statusStreams, lastResolve>>
    /\ UNCHANGED <<dlClosed, dlEvents, dlForward, dlStart, dlFirst, dlStarts, dlSubs, dlStream,
                   tracker, coreSubs>>

\* State WaitingForReconnect, the channel is closed: Idle.
DlWaitClosed ==
    /\ dlState = "WaitingForReconnect"
    /\ dlCommands = <<>> /\ dlClosed
    /\ dlState' = WhenClosed(dlState)
    /\ dlTimeout' = "none"
    /\ dlElapsed' = FALSE
    /\ UNCHANGED <<callers, dlCommands, dlClosed, dlOptions, dlEvents, dlForward, dlStart,
                   dlFirst, dlStarts, dlSubs, dlStream, tracker, coreSubs, statusStreams,
                   lastResolve>>

\* A mutated delay that completes only when the retry delay has passed.
sync_iteration_delay_Timed(elapsed) == elapsed

\* InnerPowerSyncState::sync_iteration_delay: `async fn ... {}` is complete
\* the first time it is polled.
sync_iteration_delay(elapsed) == TRUE

\* State WaitingForReconnect, Event::TimeoutExpired: `async {}` or
\* sync_iteration_delay() has completed; the iteration is started again with
\* the stored options.
DlTimeoutExpired ==
    /\ dlState = "WaitingForReconnect"
    /\ dlTimeout = "delay" => sync_iteration_delay(dlElapsed)
    /\ StartIteration(dlOptions)
    /\ UNCHANGED <<callers, dlCommands, dlClosed, dlOptions, tracker, coreSubs,
                   statusStreams, lastResolve>>

\* Time passes: the retry delay of the options is over.
RetryDelayElapses ==
    /\ dlState = "WaitingForReconnect"
    /\ dlTimeout = "delay" /\ ~dlElapsed
    /\ dlElapsed' = TRUE
    /\ UNCHANGED <<callers, dlCommands, dlClosed, dlState, dlOptions, dlEvents, dlForward,
                   dlTimeout, dlStart, dlFirst, dlStarts, dlSubs, dlStream, tracker, coreSubs,
                   statusStreams, lastResolve>>

(***************************************************************************)
(* sync_stream, check_ok, response_to_lines and the events the iteration   *)
(* passes to the extension for them                                        *)
(***************************************************************************)
StatusCodes == {200, 401, 403, 500}

BsonMime == [basetype |-> "application", subtype |-> "vnd.powersync.bson-stream"]

\* Content types of a response; NoMime stands for a missing header.
NoMime == [basetype |-> "none", subtype |-> "none"]

Mimes ==
    {BsonMime, NoMime,
     [basetype |-> "application", subtype |-> "x-ndjson"],
     [basetype |-> "text", subtype |-> "vnd.powersync.bson-stream"]}

\* The result of client.send: a transport error, or a response.
Responses ==
    {[outcome |-> "transport", code |-> 0, mime |-> NoMime]}
      \cup [outcome : {"response"}, code : StatusCodes, mime : Mimes]

\* Lines of text, as sequences of characters, none of them empty.
TextLines == {<<"a">>, <<"b", "a">>}

NewLine == "\n"

\* The body of a text response: every line followed by a newline, the last
\* one only when `terminated`.
RECURSIVE JoinLines(_, _)
JoinLines(ls, terminated) ==
    IF ls = <<>> THEN <<>>
    ELSE IF Len(ls) = 1 /\ ~terminated THEN Head(ls)
    ELSE Head(ls) \o <<NewLine>> \o JoinLines(Tail(ls), terminated)

\* http.rs check_ok
check_ok(code) ==
    CASE code = 200 -> "Ok"
      [] code = 401 -> "InvalidCredentials"
      [] OTHER -> "UnexpectedStatusCode"

\* The `response` future of sync_stream: send(request).await?, check_ok(..)?
ResponseResult(r) == IF r.outcome = "transport" THEN "Http" ELSE check_ok(r.code)

\* response_to_lines: is_bson
is_bson(mime) == mime.basetype = "application" /\ mime.subtype = "vnd.powersync.bson-stream"

\* AsyncBufReadExt::lines, one item: the characters up to the next newline,
\* or what is left when there is none; None at the end of the body.
RECURSIVE UpToNewLine(_)
UpToNewLine(b) ==
    IF b = <<>> \/ Head(b) = NewLine THEN <<>> ELSE <<Head(b)>> \o UpToNewLine(Tail(b))

next_text_line(b) ==
    IF b = <<>>
      THEN [kind |-> "None", data |-> <<>>, rest |-> <<>>]
      ELSE LET l == UpToNewLine(b)
           IN  [kind |-> "Ok", data |-> l,
                rest |-> IF Len(l) < Len(b) THEN SubSeq(b, Len(l) + 2, Len(b)) ELSE <<>>]

\* BsonObjects over the body, one item (the framer is followed poll by poll
\* in SpecBson): the next object, None at the end, or the error of the framer.
next_bson_object(b) ==
    LET p == process_bytes(<<>>, RemainingDefault, b)
    IN  CASE p.kind = "Ok" ->
               [kind |-> "Ok", data |-> p.bytes, rest |-> SubSeq(b, p.consumed + 1, Len(b))]
          [] p.kind = "Pending" ->
               [kind |-> process_bytes(p.buf, p.remaining, <<>>).kind, data |-> <<>>,
                rest |-> <<>>]
          [] OTHER -> [kind |-> p.kind, data |-> <<>>, rest |-> <<>>]

ConnectionEstablished == [type |-> "ConnectionEstablished", data |-> <<>>]

ResponseStreamEnd == [type |-> "ResponseStreamEnd", data |-> <<>>]

\* A mutated mapping that reports every line as text.
EventOfLine_Text(bson, l) == [type |-> "TextLine", data |-> l]

\* response_to_lines: the map over the decoded items.
EventOfLine(bson, l) == [type |-> IF bson THEN "BinaryLine" ELSE "TextLine", data |-> l]

\* DownloadClient::run with an event of the stream: writer().await? or
\* invoke_control fails, or the event is passed to the extension and its
\* instructions run, which ends the iteration when a CloseSyncStream is among
\* them.
PassToControl(event) ==
    \/ passed' = Append(passed, event) /\ iterEnd' \in {"running", "closed"}
    \/ passed' = passed /\ iterEnd' = "Sqlite"

\* sync_stream: the response future has resolved, to a response or to an
\* error; flat_map maps either to once(Ok(ConnectionEstablished)) chained
\* with response_to_lines, so ConnectionEstablished is the first item.
HttpResponseArrives ==
    /\ iterEnd = "running"
    /\ httpPc = "request"
    /\ httpPc' = "lines"
    /\ PassToControl(ConnectionEstablished)
    /\ UNCHANGED <<response, respLines, body>>

\* receive_on_stream on the items of response_to_lines: the error of a failed
\* request, the next line, the error of the decoder, or ResponseStreamEnd for
\* None (try_next().await?.unwrap_or(ResponseStreamEnd)).
HttpNextItem ==
    /\ iterEnd = "running"
    /\ httpPc = "lines"
    /\ IF ResponseResult(response) # "Ok"
         THEN /\ iterEnd' = ResponseResult(response)
              /\ UNCHANGED <<passed, body>>
         ELSE LET d == IF is_bson(response.mime)
                         THEN next_bson_object(body)
                         ELSE next_text_line(body)
              IN  CASE d.kind = "Ok" ->
                         /\ PassToControl(EventOfLine(is_bson(response.mime), d.data))
                         /\ body' = d.rest
                    [] d.kind = "None" ->
                         /\ Len(passed) < Len(respLines) + 1 + MaxEnds
                         /\ PassToControl(ResponseStreamEnd)
                         /\ UNCHANGED body
                    [] OTHER ->
                         /\ iterEnd' = "IO"
                         /\ UNCHANGED <<passed, body>>
    /\ UNCHANGED <<response, respLines, httpPc>>

\* Reading the body fails (poll_fill_buf or lines() returns an error).
HttpReadError ==
    /\ iterEnd = "running"
    /\ httpPc = "lines"
    /\ ResponseResult(response) = "Ok"
    /\ iterEnd' = "IO"
    /\ UNCHANGED <<response, respLines, body, httpPc, passed>>

\* A Stop from the actor is taken first (future::or prefers the local
\* events) and its reply closes the iteration.
HttpLocalStop ==
    /\ iterEnd = "running"
    /\ iterEnd' = "closed"
    /\ UNCHANGED <<response, respLines, body, httpPc, passed>>

(***************************************************************************)
(* Initial states of the components                                        *)
(***************************************************************************)
StatusInit ==
    /\ data = 1
    /\ statusData = DefaultStatusData
    /\ is_invalidated = <<FALSE>>
    /\ statusLock = FALSE
    /\ updOld = 0
    /\ last_data = 0
    /\ listener = NoListener
    /\ wsPc = "poll"
    /\ emittedStatus = <<>>

NotifyInit ==
    /\ nuPc = "idle"
    /\ nuUpdates = {}
    /\ nNotifications = 0

\* No stream has been created.
WatchOff ==
    /\ active = <<>>
    /\ tables = {}
    /\ emit_initially = FALSE
    /\ dirty = FALSE
    /\ tlListener = "none"
    /\ tsPc = "dropped"
    /\ nEmitted = 0
    /\ nMatching = 0
    /\ nBatches = 0

\* The state after listen(e, T): the listener state is pushed to `active`, and
\* its dirty flag starts as emit_initially.
WatchInit ==
    /\ active = <<1>>
    /\ tables \in SUBSET Tables
    /\ emit_initially \in BOOLEAN
    /\ dirty = emit_initially
    /\ tlListener = "none"
    /\ tsPc = "poll"
    /\ nEmitted = 0
    /\ nMatching = 0
    /\ nBatches = IF emit_initially THEN 1 ELSE 0

\* No callback has been installed.
CallbackOff ==
    /\ raw_listeners = <<>>
    /\ cbIdx = 0
    /\ deactivated = [i \in CallbackIds |-> FALSE]
    /\ handlePc = [i \in CallbackIds |-> "dropped"]
    /\ cbInvoked = [i \in CallbackIds |-> 0]

\* The state after install_callback for each of CallbackIds, in that order.
CallbackInit ==
    /\ \E k1, k2 \in (SUBSET Tables) \ {{}} :
          raw_listeners = <<[id |-> 1, key |-> k1], [id |-> 2, key |-> k2]>>
    /\ cbIdx = 0
    /\ deactivated = [i \in CallbackIds |-> FALSE]
    /\ handlePc = [i \in CallbackIds |-> "alive"]
    /\ cbInvoked = [i \in CallbackIds |-> 0]

\* A fresh database: no local write has happened.
CrudInit ==
    /\ ps_crud = {}
    /\ crud_seq = 0
    /\ target_op = NoLocalBucket
    /\ customTarget = FALSE

UploadInit ==
    /\ upPc = "idle"
    /\ last_item_id = 0
    /\ upError = "none"
    /\ observed = <<>>
    /\ uploadCalls = <<>>
    /\ crud_sequence = 0
    /\ write_checkpoint = 0

ActorInit ==
    /\ state = "Idle"
    /\ commands = <<>>
    /\ commandsClosed = FALSE
    /\ options = 0
    /\ send_events = <<>>
    /\ forwarding = None
    /\ timeout = None
    /\ disconnectSeen = FALSE
    /\ iterPc = "none"
    /\ instructions = <<>>
    /\ stream = "none"
    /\ result = NoResult

StreamsInit ==
    /\ streams = [k \in StreamKeys |-> 0]
    /\ strong = [h \in Subscriptions |-> 0]
    /\ subPc = [h \in Subscriptions |-> "none"]
    /\ subKey = [h \in Subscriptions |-> "s1"]
    /\ subGroup = [h \in Subscriptions |-> 0]
    /\ subChanged = [h \in Subscriptions |-> {}]
    /\ sentChanges = <<>>

CrudTxInit ==
    /\ crudTx = <<>>
    /\ writtenSizes = <<>>
    /\ txs_last_item_id = NoItem
    /\ yielded = <<>>
    /\ txsEnded = FALSE
    /\ txsQuiet = TRUE
    /\ completedId = 0
    /\ afterComplete = FALSE

CompleteInit ==
    /\ cciPc = "none"
    /\ cci_last = 1
    /\ cci_checkpoint = 0
    /\ txn_ps_crud = {}
    /\ txn_target_op = NoLocalBucket
    /\ local_target_op = MAX_OP_ID
    /\ cciResult = "none"

UploadActorInit ==
    /\ upState = "Idle"
    /\ upCommands = <<>>
    /\ upClosed = FALSE
    /\ crudDirty = FALSE
    /\ connectPc = "none"
    /\ triggerPc = "none"
    /\ established = 0
    /\ disconnectSent = FALSE

\* The fields of the pool other than the number of pooled readers.
PoolRest ==
    /\ writerLocked = FALSE
    /\ leasePc = [l \in Leases |-> "none"]
    /\ leaseWriter = [l \in Leases |-> TRUE]
    /\ leaseSync = [l \in Leases |-> FALSE]
    /\ leaseImpl = [l \in Leases |-> "Writer"]
    /\ txOpen = FALSE
    /\ pendingTables = {}
    /\ committedTables = {}
    /\ leaseWrote = [l \in Leases |-> {}]
    /\ notifications = <<>>

\* ConnectionPool::single_connection, the pool of in-memory databases.
PoolOff == readers = NoReaders /\ PoolRest

\* ConnectionPool::wrap_connections with some readers, or single_connection.
PoolInit == readers \in {NoReaders} \cup 1..MaxReaders /\ PoolRest

ExtInit == StreamsInit /\ CrudTxInit /\ CompleteInit /\ UploadActorInit /\ PoolOff

\* BsonObjects::new over an empty reader.
BsonRest ==
    /\ buf = <<>>
    /\ remainingBytes = RemainingDefault
    /\ items = <<>>
    /\ bsEnd = "open"
    /\ straddled = FALSE

BsonOff == bsFrames = <<>> /\ bsTail = <<>> /\ reader = <<>> /\ BsonRest

\* BsonObjects::new over a reader holding up to MaxFrames frames and a tail.
BsonInit ==
    /\ bsFrames \in UNION {[1..k -> ValidFrames] : k \in 0..MaxFrames}
    /\ bsTail \in Tails
    /\ reader = Concat(bsFrames) \o bsTail
    /\ BsonRest

\* install_actor_channel and DownloadActor::new: nothing requested, Idle.
CoordRest ==
    /\ dlCommands = <<>> /\ dlState = "Idle" /\ dlOptions = 0
    /\ dlEvents = <<>> /\ dlForward = NoRequest /\ dlTimeout = "none" /\ dlElapsed = FALSE
    /\ dlStart = [include_defaults |-> FALSE, active_streams |-> {}]
    /\ dlFirst = None /\ dlStarts = 0 /\ dlSubs = {} /\ dlStream = FALSE
    /\ tracker = {} /\ coreSubs = {} /\ statusStreams = {} /\ lastResolve = "none"

\* The coordinator with no caller and its channel already closed.
CoordOff == callers = [c \in Callers |-> IdleCaller] /\ dlClosed = TRUE /\ CoordRest

CoordInit == callers = [c \in Callers |-> IdleCaller] /\ dlClosed = FALSE /\ CoordRest

HttpRest == httpPc = "request" /\ passed = <<>> /\ iterEnd = "running"

\* No request is made.
HttpOff ==
    /\ response = [outcome |-> "transport", code |-> 0, mime |-> NoMime]
    /\ respLines = <<>> /\ body = <<>>
    /\ httpPc = "request" /\ passed = <<>> /\ iterEnd = "closed"

\* establish_sync_stream has stored the stream of a request; the service
\* answers it in one of the ways of Responses, a 200 with up to MaxLines lines.
HttpInit ==
    /\ response \in Responses
    /\ IF ResponseResult(response) # "Ok"
         THEN respLines = <<>> /\ body = <<>>
         ELSE IF is_bson(response.mime)
           THEN /\ respLines \in UNION {[1..k -> ValidFrames] : k \in 0..MaxLines}
                /\ body = Concat(respLines)
           ELSE /\ respLines \in UNION {[1..k -> TextLines] : k \in 0..MaxLines}
                /\ \E terminated \in BOOLEAN : body = JoinLines(respLines, terminated)
    /\ HttpRest

(***************************************************************************)
(* Requests, acknowledgements and the writer lease                         *)
(***************************************************************************)
CoordinatorCalls ==
    {"connect", "disconnect", "trigger_crud_uploads", "resolve_offline_sync_status",
     "handle_subscriptions_changed"}

\* The command a call sends to the download actor.
DownloadCommandOf(op) ==
    CASE op = "connect" -> "Connect"
      [] op = "disconnect" -> "Disconnect"
      [] op = "resolve_offline_sync_status" -> "ResolveOfflineSyncStatusIfNotConnected"
      [] OTHER -> "SubscriptionsChanged"

\* The command a call sends to the upload actor.
UploadCommandOf(op) ==
    CASE op = "connect" -> "Connect"
      [] op = "disconnect" -> "Disconnect"
      [] OTHER -> "TriggerCrudUpload"

\* No request; caller 0 is the iteration, in trigger_crud_uploads.
WNoRequest == [caller |-> 0, cmd |-> "none"]

WIdle == [op |-> "none", pc |-> "idle"]

\* A caller starts one of the calls of SyncCoordinator.
WCall(c) ==
    /\ wCall[c].pc = "idle"
    /\ \E op \in CoordinatorCalls :
         wCall' = [wCall EXCEPT ![c] =
                     [op |-> op,
                      pc |-> IF op = "trigger_crud_uploads" THEN "up_send" ELSE "dl_send"]]
    /\ UNCHANGED <<wDl, wUp, wDlState, wDlHeld, wEvents, wIter, wCur, wStream, wLease,
                   wUpState, wRun>>

\* download_actor_request: downloads.send(request).await completes once the
\* channel has room; the caller then awaits the response.
WSendDownload(c) ==
    /\ wCall[c].pc = "dl_send"
    /\ Len(wDl) < 1
    /\ wDl' = Append(wDl, [caller |-> c, cmd |-> DownloadCommandOf(wCall[c].op)])
    /\ wCall' = [wCall EXCEPT ![c].pc = "dl_ack"]
    /\ UNCHANGED <<wUp, wDlState, wDlHeld, wEvents, wIter, wCur, wStream, wLease,
                   wUpState, wRun>>

\* upload_actor_request: uploads.send(request).await.
WSendUpload(c) ==
    /\ wCall[c].pc = "up_send"
    /\ Len(wUp) < 1
    /\ wUp' = Append(wUp, [caller |-> c, cmd |-> UploadCommandOf(wCall[c].op)])
    /\ wCall' = [wCall EXCEPT ![c].pc = "up_ack"]
    /\ UNCHANGED <<wDl, wDlState, wDlHeld, wEvents, wIter, wCur, wStream, wLease,
                   wUpState, wRun>>

\* `let _ = response.await` completes, by response.send(()) or by the drop of
\* the request: connect and disconnect go on to the upload actor, every other
\* call returns.
WReturned(calls, r) ==
    [calls EXCEPT ![r.caller] =
        IF @.pc = "dl_ack" /\ @.op \in {"connect", "disconnect"}
          THEN [@ EXCEPT !.pc = "up_send"]
          ELSE WIdle]

\* DownloadActor::start_iteration.
WStartIteration ==
    /\ wEvents' = <<"Start">>
    /\ wIter' = "recv"
    /\ wCur' = "none"
    /\ wStream' = FALSE
    /\ wDlState' = "Running"

\* handle_event, Idle: Connect starts an iteration and is acknowledged;
\* ResolveOfflineSyncStatusIfNotConnected awaits the writer with the request
\* in hand; every other request is dropped.
WDlIdle ==
    /\ wDlState = "Idle" /\ wDlHeld = WNoRequest /\ wDl # <<>>
    /\ LET r == Head(wDl) IN
         /\ wDl' = Tail(wDl)
         /\ CASE r.cmd = "Connect" ->
                   /\ WStartIteration
                   /\ wCall' = WReturned(wCall, r)
                   /\ UNCHANGED wDlHeld
              [] r.cmd = "ResolveOfflineSyncStatusIfNotConnected" ->
                   /\ wDlHeld' = r
                   /\ UNCHANGED <<wCall, wDlState, wEvents, wIter, wCur, wStream>>
              [] OTHER ->
                   /\ wCall' = WReturned(wCall, r)
                   /\ UNCHANGED <<wDlHeld, wDlState, wEvents, wIter, wCur, wStream>>
    /\ UNCHANGED <<wUp, wLease, wUpState, wRun>>

\* handle_event, Idle: self.db.writer().await returns, resolve_offline_state
\* runs without a further await, the lease and the request are dropped.
WDlResolve ==
    /\ wDlState = "Idle" /\ wDlHeld # WNoRequest
    /\ wLease = "free"
    /\ wCall' = WReturned(wCall, wDlHeld)
    /\ wDlHeld' = WNoRequest
    /\ UNCHANGED <<wDl, wUp, wDlState, wEvents, wIter, wCur, wStream, wLease, wUpState,
                   wRun>>

\* The event forwarding_request sends for a command.
WEventOf(cmd) ==
    CASE cmd = "Disconnect" -> "Stop"
      [] cmd = "CrudUploadComplete" -> "CompletedUpload"
      [] OTHER -> "UpdateSubscriptions"

\* handle_event, Running, forwarding_request: Connect and
\* ResolveOfflineSyncStatusIfNotConnected are dropped; the other commands are
\* sent to the iteration, and the request is kept while the channel is full.
WDlForward ==
    /\ wDlState = "Running" /\ wDlHeld = WNoRequest /\ wDl # <<>>
    /\ LET r == Head(wDl) IN
         /\ wDl' = Tail(wDl)
         /\ IF r.cmd \in {"Connect", "ResolveOfflineSyncStatusIfNotConnected"}
              THEN /\ wCall' = WReturned(wCall, r)
                   /\ UNCHANGED <<wEvents, wDlHeld>>
              ELSE IF Len(wEvents) < 1
                THEN /\ wEvents' = Append(wEvents, WEventOf(r.cmd))
                     /\ wCall' = WReturned(wCall, r)
                     /\ UNCHANGED wDlHeld
                ELSE /\ wDlHeld' = r
                     /\ UNCHANGED <<wCall, wEvents>>
    /\ UNCHANGED <<wUp, wDlState, wIter, wCur, wStream, wLease, wUpState, wRun>>

\* send_events.send(event).await completes.
WDlForwardUnblocked ==
    /\ wDlState = "Running" /\ wDlHeld # WNoRequest
    /\ Len(wEvents) < 1
    /\ wEvents' = Append(wEvents, WEventOf(wDlHeld.cmd))
    /\ wCall' = WReturned(wCall, wDlHeld)
    /\ wDlHeld' = WNoRequest
    /\ UNCHANGED <<wDl, wUp, wDlState, wIter, wCur, wStream, wLease, wUpState, wRun>>

\* handle_event, Running, iteration_done: the iteration has returned; race
\* drops forwarding_request and with it the request it holds.
WDlIterationDone ==
    /\ wDlState = "Running" /\ wIter = "done"
    /\ wDlState' = "WaitingForReconnect"
    /\ wEvents' = <<>>
    /\ wIter' = "none" /\ wCur' = "none" /\ wStream' = FALSE
    /\ wCall' = IF wDlHeld = WNoRequest THEN wCall ELSE WReturned(wCall, wDlHeld)
    /\ wDlHeld' = WNoRequest
    /\ UNCHANGED <<wDl, wUp, wLease, wUpState, wRun>>

\* handle_event, WaitingForReconnect, wait_for_disconnect_request: every
\* request is received and dropped, Disconnect ends the wait.
WDlWaiting ==
    /\ wDlState = "WaitingForReconnect" /\ wDl # <<>>
    /\ wDl' = Tail(wDl)
    /\ wCall' = WReturned(wCall, Head(wDl))
    /\ wDlState' = IF Head(wDl).cmd = "Disconnect" THEN "Idle" ELSE wDlState
    /\ UNCHANGED <<wUp, wDlHeld, wEvents, wIter, wCur, wStream, wLease, wUpState, wRun>>

\* handle_event, WaitingForReconnect, timeout_expired.
WDlTimeout ==
    /\ wDlState = "WaitingForReconnect"
    /\ WStartIteration
    /\ UNCHANGED <<wCall, wDl, wUp, wDlHeld, wLease, wUpState, wRun>>

\* DownloadClient::run: receive_command yields the next local event; without
\* one, receive_on_stream yields a line of the response or fails.
WIterReceive ==
    /\ wIter = "recv"
    /\ \/ /\ wEvents # <<>>
          /\ wCur' = Head(wEvents) /\ wEvents' = Tail(wEvents)
          /\ wIter' = "writer"
       \/ /\ wEvents = <<>> /\ wStream
          /\ \/ wCur' = "Line" /\ wIter' = "writer"
             \/ wCur' = "none" /\ wIter' = "done"
          /\ UNCHANGED wEvents
    /\ UNCHANGED <<wCall, wDl, wUp, wDlState, wDlHeld, wStream, wLease, wUpState, wRun>>

\* run: `let mut conn = self.db.writer().await?` returns the lease.
WIterWriter ==
    /\ wIter = "writer"
    /\ wLease = "free"
    /\ wLease' = "iteration"
    /\ wIter' = "control"
    /\ UNCHANGED <<wCall, wDl, wUp, wDlState, wDlHeld, wEvents, wCur, wStream, wUpState,
                   wRun>>

\* What the for loop over the instructions of one control call meets: only
\* instructions without an await, an EstablishSyncStream, a CloseSyncStream, or
\* an error of the control call. The reply to Stop closes the stream.
ControlOutcomes(event) ==
    IF event = "Stop"
      THEN {"CloseSyncStream", "error"}
      ELSE {"synchronous", "EstablishSyncStream", "CloseSyncStream", "error"}

\* A mutated loop body that drops conn before the first await.
ConnAfterControl_Dropped(outcome) == "free"

\* conn after event.invoke_control(&mut conn): it lives until the end of the
\* body of the 'event loop, so it is still held when the for loop awaits.
ConnAfterControl(outcome) ==
    IF outcome = "EstablishSyncStream" THEN "iteration" ELSE "free"

\* run: event.invoke_control(&mut conn)? and the for loop up to its first await.
WIterControl ==
    /\ wIter = "control"
    /\ \E outcome \in ControlOutcomes(wCur) :
         /\ wLease' = ConnAfterControl(outcome)
         /\ wIter' = CASE outcome = "synchronous" -> "recv"
                       [] outcome = "EstablishSyncStream" -> "credentials"
                       [] OTHER -> "done"
    /\ wCur' = "none"
    /\ UNCHANGED <<wCall, wDl, wUp, wDlState, wDlHeld, wEvents, wStream, wUpState, wRun>>

\* establish_sync_stream: connector.fetch_credentials().await returns; an
\* error ends the iteration and conn is dropped with it.
WIterCredentials ==
    /\ wIter = "credentials"
    /\ \/ wStream' = TRUE /\ wIter' = "trigger_send" /\ UNCHANGED wLease
       \/ wIter' = "done" /\ wLease' = "free" /\ UNCHANGED wStream
    /\ UNCHANGED <<wCall, wDl, wUp, wDlState, wDlHeld, wEvents, wCur, wUpState, wRun>>

\* trigger_crud_uploads, upload_actor_request: uploads.send(request).await.
WIterTriggerSend ==
    /\ wIter = "trigger_send"
    /\ Len(wUp) < 1
    /\ wUp' = Append(wUp, [caller |-> 0, cmd |-> "TriggerCrudUpload"])
    /\ wIter' = "trigger_ack"
    /\ UNCHANGED <<wCall, wDl, wDlState, wDlHeld, wEvents, wCur, wStream, wLease,
                   wUpState, wRun>>

\* trigger_crud_uploads has returned: the for loop ends, conn is dropped.
WIterTriggered ==
    /\ wIter = "triggered"
    /\ wIter' = "recv"
    /\ wLease' = "free"
    /\ UNCHANGED <<wCall, wDl, wUp, wDlState, wDlHeld, wEvents, wCur, wStream, wUpState,
                   wRun>>

\* The response of a request to the upload actor arrives at its sender.
WUpAcked(r) ==
    IF r.caller \notin Callers
      THEN wIter' = "triggered" /\ UNCHANGED wCall
      ELSE wCall' = WReturned(wCall, r) /\ UNCHANGED wIter

\* UploadActor::handle_event, Idle.
WUpIdle ==
    /\ wUpState = "Idle" /\ wUp # <<>>
    /\ wUp' = Tail(wUp)
    /\ WUpAcked(Head(wUp))
    /\ wUpState' = IF Head(wUp).cmd = "Connect" THEN "Connected" ELSE "Idle"
    /\ UNCHANGED <<wDl, wDlState, wDlHeld, wEvents, wCur, wStream, wLease, wRun>>

\* handle_event, Connected, trigger_by_command.
WUpConnected ==
    /\ wUpState = "Connected" /\ wUp # <<>>
    /\ wUp' = Tail(wUp)
    /\ WUpAcked(Head(wUp))
    /\ CASE Head(wUp).cmd = "TriggerCrudUpload" ->
              wUpState' = "RunningUpload" /\ wRun' = "upload"
         [] Head(wUp).cmd = "Disconnect" -> wUpState' = "Idle" /\ UNCHANGED wRun
         [] OTHER -> UNCHANGED <<wUpState, wRun>>
    /\ UNCHANGED <<wDl, wDlState, wDlHeld, wEvents, wCur, wStream, wLease>>

\* handle_event, Connected, trigger_by_crud_change.
WUpCrudChange ==
    /\ wUpState = "Connected"
    /\ wUpState' = "RunningUpload" /\ wRun' = "upload"
    /\ UNCHANGED <<wCall, wDl, wUp, wDlState, wDlHeld, wEvents, wIter, wCur, wStream,
                   wLease>>

\* A mutated upload actor that awaits the run alone while it is uploading.
RacesCommands_RunOnly(st) == st # "RunningUpload"

\* handle_event, RunningUpload and WaitingForReconnect: future::race polls
\* state_transition_from_command_while_uploading next to the run or the timeout.
RacesCommands(st) == TRUE

\* state_transition_from_command_while_uploading.
WUpWhileUploading ==
    /\ wUpState \in {"RunningUpload", "WaitingForReconnect"} /\ wUp # <<>>
    /\ RacesCommands(wUpState)
    /\ wUp' = Tail(wUp)
    /\ WUpAcked(Head(wUp))
    /\ CASE Head(wUp).cmd = "Connect" -> wUpState' = "Connected" /\ wRun' = "none"
         [] Head(wUp).cmd = "Disconnect" -> wUpState' = "Idle" /\ wRun' = "none"
         [] OTHER -> UNCHANGED <<wUpState, wRun>>
    /\ UNCHANGED <<wDl, wDlState, wDlHeld, wEvents, wCur, wStream, wLease>>

\* CrudUpload::run up to the end of its awaits on the connector: it goes on to
\* PendingCheckpointRequest::complete, returns Ok or returns an error.
WUpRun ==
    /\ wUpState = "RunningUpload" /\ wRun = "upload"
    /\ wRun' \in {"writer", "ok", "failed"}
    /\ UNCHANGED <<wCall, wDl, wUp, wDlState, wDlHeld, wEvents, wIter, wCur, wStream,
                   wLease, wUpState>>

\* PendingCheckpointRequest::complete: db.writer().await returns, the
\* transaction runs without a further await, the lease is dropped and the run
\* returns Ok.
WUpComplete ==
    /\ wUpState = "RunningUpload" /\ wRun = "writer"
    /\ wLease = "free"
    /\ wRun' = "ok"
    /\ UNCHANGED <<wCall, wDl, wUp, wDlState, wDlHeld, wEvents, wIter, wCur, wStream,
                   wLease, wUpState>>

\* handle_event, RunningUpload, upload_done: Ok(_) leads to Connected and to
\* nothing else; Err(e) leads to WaitingForReconnect.
WUpDone ==
    /\ wUpState = "RunningUpload" /\ wRun \in {"ok", "failed"}
    /\ wUpState' = IF wRun = "ok" THEN "Connected" ELSE "WaitingForReconnect"
    /\ wRun' = "none"
    /\ UNCHANGED <<wCall, wDl, wUp, wDlState, wDlHeld, wEvents, wIter, wCur, wStream,
                   wLease>>

\* handle_event, WaitingForReconnect, timeout_expired.
WUpTimeout ==
    /\ wUpState = "WaitingForReconnect"
    /\ wUpState' = "Connected"
    /\ UNCHANGED <<wCall, wDl, wUp, wDlState, wDlHeld, wEvents, wIter, wCur, wStream,
                   wLease, wRun>>

WaitRest ==
    /\ wDl = <<>> /\ wUp = <<>> /\ wDlState = "Idle" /\ wDlHeld = WNoRequest
    /\ wEvents = <<>> /\ wIter = "none" /\ wCur = "none" /\ wStream = FALSE
    /\ wLease = "free" /\ wUpState = "Idle" /\ wRun = "none"

WaitOff == wCall = [c \in Callers |-> WIdle] /\ WaitRest

\* Both actors installed and idle, nothing requested, the writer free.
WaitInit == wCall = [c \in Callers |-> WIdle] /\ WaitRest

(***************************************************************************)
(* TableNotifiers::listen and Drop for PendingListener: db/watch.rs        *)
(***************************************************************************)
PendingListeners == 1..MaxStreams

\* TableNotifiers::listen: a new listener state is pushed to `active` under
\* its lock and the stream that owns it is returned.
TN_Listen(i) ==
    /\ notifiersAlive
    /\ plState[i] = "none"
    /\ plActive' = Append(plActive, i)
    /\ plState' = [plState EXCEPT ![i] = "alive"]
    /\ UNCHANGED notifiersAlive

\* A mutated retain whose closure is true for no element.
retain_Clear(list, id) == <<>>

\* guard.retain(|listener| !Arc::ptr_eq(listener, &self.state))
retain(list, id) == SelectSeq(list, LAMBDA l : l # id)

\* Drop for PendingListener: with the notifier still alive the state is taken
\* out of `active` under its lock; without it upgrade() is None and nothing
\* is done.
PL_Drop(i) ==
    /\ plState[i] = "alive"
    /\ plState' = [plState EXCEPT ![i] = "dropped"]
    /\ plActive' = IF notifiersAlive THEN retain(plActive, i) ELSE plActive
    /\ UNCHANGED notifiersAlive

\* The last Arc<TableNotifiers> is dropped: `active` goes with it, and the
\* Weak held by every remaining stream no longer upgrades.
TN_DropNotifiers ==
    /\ notifiersAlive
    /\ notifiersAlive' = FALSE
    /\ plActive' = <<>>
    /\ UNCHANGED plState

RegOff ==
    plActive = <<>> /\ plState = [i \in PendingListeners |-> "none"]
      /\ notifiersAlive = FALSE

\* TableNotifiers::default(): no listener.
RegInit ==
    plActive = <<>> /\ plState = [i \in PendingListeners |-> "none"]
      /\ notifiersAlive = TRUE

(***************************************************************************)
(* SharedFuture::run: util/shared_future.rs                                *)
(***************************************************************************)
Sharers == 1..MaxSharers

\* data.notify.notify(usize::MAX): every listener that exists is notified.
NotifyAll(ls) == [c \in Sharers |-> IF ls[c] = "listening" THEN "notified" ELSE ls[c]]

\* A caller enters run.
SharedRun(c) ==
    /\ sfPc[c] = "new"
    /\ sfPc' = [sfPc EXCEPT ![c] = "cas"]
    /\ UNCHANGED <<sfState, sfResult, sfListener, sfGot>>

\* compare_exchange_weak(Idle, RunningFuture) and the match on its result. A
\* spurious failure, Err(Idle), leads back here and changes nothing.
SharedCompareExchange(c) ==
    /\ sfPc[c] = "cas"
    /\ CASE sfState = "Idle" ->
              /\ sfState' = "RunningFuture"
              /\ sfPc' = [sfPc EXCEPT ![c] = "running"]
              /\ UNCHANGED sfGot
         [] sfState = "RunningFuture" ->
              /\ sfPc' = [sfPc EXCEPT ![c] = "listen"]
              /\ UNCHANGED <<sfState, sfGot>>
         [] OTHER ->
              /\ sfPc' = [sfPc EXCEPT ![c] = "done"]
              /\ sfGot' = [sfGot EXCEPT ![c] = sfResult]
              /\ UNCHANGED sfState
    /\ UNCHANGED <<sfResult, sfListener>>

\* let listener = data.notify.listen()
SharedListen(c) ==
    /\ sfPc[c] = "listen"
    /\ sfListener' = [sfListener EXCEPT ![c] = "listening"]
    /\ sfPc' = [sfPc EXCEPT ![c] = "load"]
    /\ UNCHANGED <<sfState, sfResult, sfGot>>

\* if data.state.load(SeqCst) == RunningFuture { listener.await }: otherwise
\* the listener is dropped and the loop starts again.
SharedLoad(c) ==
    /\ sfPc[c] = "load"
    /\ IF sfState = "RunningFuture"
         THEN sfPc' = [sfPc EXCEPT ![c] = "await"] /\ UNCHANGED sfListener
         ELSE /\ sfPc' = [sfPc EXCEPT ![c] = "cas"]
              /\ sfListener' = [sfListener EXCEPT ![c] = "none"]
    /\ UNCHANGED <<sfState, sfResult, sfGot>>

\* listener.await completes once the listener has been notified.
SharedWoken(c) ==
    /\ sfPc[c] = "await" /\ sfListener[c] = "notified"
    /\ sfListener' = [sfListener EXCEPT ![c] = "none"]
    /\ sfPc' = [sfPc EXCEPT ![c] = "cas"]
    /\ UNCHANGED <<sfState, sfResult, sfGot>>

\* f().await has returned: the result is written and Completed is stored.
SharedStore(c) ==
    /\ sfPc[c] = "running"
    /\ sfResult' = c
    /\ sfState' = "Completed"
    /\ sfPc' = [sfPc EXCEPT ![c] = "notify"]
    /\ UNCHANGED <<sfListener, sfGot>>

\* data.notify.notify(usize::MAX), the guard is defused, assume_completed().
SharedNotify(c) ==
    /\ sfPc[c] = "notify"
    /\ sfListener' = NotifyAll(sfListener)
    /\ sfPc' = [sfPc EXCEPT ![c] = "done"]
    /\ sfGot' = [sfGot EXCEPT ![c] = sfResult]
    /\ UNCHANGED <<sfState, sfResult>>

\* A mutated guard that leaves the state as it is.
GuardState_Kept == "RunningFuture"

\* The state the scope guard stores.
GuardState == "Idle"

\* The future of the running call is dropped at f().await: the scope guard
\* stores Idle.
SharedDropRunning(c) ==
    /\ sfPc[c] = "running"
    /\ sfState' = GuardState
    /\ sfPc' = [sfPc EXCEPT ![c] = "guard"]
    /\ UNCHANGED <<sfResult, sfListener, sfGot>>

\* The scope guard notifies the listeners.
SharedGuardNotify(c) ==
    /\ sfPc[c] = "guard"
    /\ sfListener' = NotifyAll(sfListener)
    /\ sfPc' = [sfPc EXCEPT ![c] = "dropped"]
    /\ UNCHANGED <<sfState, sfResult, sfGot>>

SharedRest ==
    /\ sfState = "Idle" /\ sfResult = 0
    /\ sfListener = [c \in Sharers |-> "none"]
    /\ sfGot = [c \in Sharers |-> 0]

\* No call of run is made.
SharedOff == sfPc = [c \in Sharers |-> "dropped"] /\ SharedRest

\* SharedFuture::new().
SharedInit == sfPc = [c \in Sharers |-> "new"] /\ SharedRest

LateOff == WaitOff /\ RegOff /\ SharedOff

MoreInit == BsonOff /\ CoordOff /\ task = "none" /\ HttpOff /\ LateOff

\* Every component of the earlier sections at rest.
BaseOff ==
    StatusInit /\ WatchOff /\ NotifyInit /\ CallbackOff /\ CrudInit /\ UploadInit
      /\ ActorInit

(***************************************************************************)
(* Specification of the status model and watch_status                      *)
(***************************************************************************)
WatchStatusStep ==
    \/ WS_FirstPoll
    \/ WS_PollWaiter
    \/ WS_CheckInvalidated
    \/ WS_Listen
    \/ WS_Recheck
    \/ WS_EmitCurrent

StatusUpdate == \E m \in Mutators : StatusInstall(m)

OutsideStatus ==
    <<watchVars, notifyVars, callbackVars, crudVars, uploadVars, actorVars, iterVars,
      extVars, moreVars>>

NextStatus ==
    \/ StatusUpdate /\ UNCHANGED OutsideStatus
    \/ StatusNotify /\ UNCHANGED OutsideStatus
    \/ WatchStatusStep /\ UNCHANGED OutsideStatus

InitStatus ==
    StatusInit /\ WatchOff /\ NotifyInit /\ CallbackOff /\ CrudInit /\ UploadInit
      /\ ActorInit /\ ExtInit /\ MoreInit

SpecStatus == InitStatus /\ [][NextStatus]_vars

\* The stream keeps being polled and an update, once inside its critical
\* section, leaves it.
FairSpecStatus ==
    SpecStatus /\ WF_vars(WatchStatusStep /\ UNCHANGED OutsideStatus)
               /\ WF_vars(StatusNotify /\ UNCHANGED OutsideStatus)

Revisions == 1..Len(is_invalidated)

\* C9: status snapshots are totally ordered by their revision; at every point
\* exactly one snapshot, the current one, is not invalidated; the flag of a
\* snapshot only ever goes from false to true, and it does so in the step that
\* installs the next snapshot; an invalidated snapshot never becomes current again.
C9_SnapshotOrder ==
    /\ [](/\ data \in Revisions
          /\ \A r \in Revisions : is_invalidated[r] <=> (r # data))
    /\ [][/\ data' >= data
          /\ \A r \in Revisions : is_invalidated[r] => is_invalidated'[r]
          /\ \A r \in Revisions :
                (~is_invalidated[r] /\ is_invalidated'[r]) <=> (r = data /\ data' = r + 1)
         ]_vars

C9_Witness == Len(is_invalidated) >= 3 /\ is_invalidated[1] /\ is_invalidated[2] /\ data = 3

\* C10: the stream never emits the same snapshot twice in a row, and when the
\* snapshot it emitted last has been replaced, a stream that keeps being polled
\* eventually emits a snapshot that is at least as new as the replacement.
C10_NoMissedChange ==
    /\ [](\A i \in 1..(Len(emittedStatus) - 1) : emittedStatus[i] # emittedStatus[i + 1])
    /\ \A r \in 1..(MaxRevisions + 1) :
          (last_data # 0 /\ last_data < r /\ data >= r) ~> (last_data >= r)

\* An update arrived between the first check of the flag and the attachment of
\* the listener, and the stream went on to emit the new snapshot.
C10_Witness ==
    /\ Len(emittedStatus) >= 2
    /\ wsPc = "recheck" /\ listener # NoListener /\ is_invalidated[last_data]

(***************************************************************************)
(* Specification of the table streams                                      *)
(***************************************************************************)
NotifyUpdates == \E updates \in SUBSET Tables : NU_Begin(updates)

OutsideNotifier == <<statusVars, crudVars, uploadVars, actorVars, iterVars, extVars, moreVars>>

NextWatch ==
    \/ NotifyUpdates /\ UNCHANGED OutsideNotifier
    \/ NU_Notify /\ UNCHANGED OutsideNotifier
    \/ NU_EnterCallbacks /\ UNCHANGED OutsideNotifier
    \/ NU_Finish /\ UNCHANGED OutsideNotifier
    \/ TableStreamStep /\ UNCHANGED <<OutsideNotifier, notifyVars, callbackVars>>
    \/ TS_Drop /\ UNCHANGED <<OutsideNotifier, notifyVars, callbackVars>>

InitWatch ==
    StatusInit /\ WatchInit /\ NotifyInit /\ CallbackOff /\ CrudInit /\ UploadInit
      /\ ActorInit /\ ExtInit /\ MoreInit

SpecWatch == InitWatch /\ [][NextWatch]_vars

NotifyStep == NU_Notify \/ NU_EnterCallbacks \/ NU_Finish

\* The stream keeps being polled, and a notify_updates call runs to its end.
FairSpecWatch ==
    SpecWatch /\ WF_vars(TableStreamStep /\ UNCHANGED <<OutsideNotifier, notifyVars, callbackVars>>)
              /\ WF_vars(NotifyStep /\ UNCHANGED OutsideNotifier)

InitialEvent == IF emit_initially THEN 1 ELSE 0

\* C6: the stream emits at most as many events as there were notifications
\* intersecting its tables, plus one if emit_initially; every event answers one
\* raise of the dirty flag, and the flag is raised once however many matching
\* notifications arrive before the stream clears it.
C6_EventBound ==
    /\ nEmitted <= nMatching + InitialEvent
    /\ nBatches <= nMatching + InitialEvent
    /\ nEmitted + (IF dirty THEN 1 ELSE 0) = nBatches

\* Three matching notifications were coalesced into one event.
C6_Witness ==
    /\ ~emit_initially /\ nMatching = 3 /\ nEmitted = 1 /\ ~dirty /\ tsPc = "poll"

\* C7: no notification is lost: whenever a notification has raised the dirty
\* flag of a live stream, the stream, if it keeps being polled, emits a further
\* event (or is dropped).
C7_NoLostNotification ==
    \A k \in 0..(MaxNotifications + 1) :
        (dirty /\ nEmitted = k /\ tsPc # "dropped") ~> (nEmitted > k \/ tsPc = "dropped")

\* A notification arrived between the check of the dirty flag and the
\* registration of the waiter.
C7_Witness == tsPc = "listen" /\ dirty /\ nMatching >= 1

(***************************************************************************)
(* Specification of the upload run                                         *)
(***************************************************************************)
OutsideUpload == <<watchVars, notifyVars, callbackVars, actorVars, iterVars, extVars, moreVars>>

NextUpload ==
    \/ LocalWrite /\ UNCHANGED <<OutsideUpload, statusVars>>
    \/ CompleteCrud /\ UNCHANGED <<OutsideUpload, statusVars>>
    \/ UploadStart /\ UNCHANGED OutsideUpload
    \/ UploadRunStep /\ UNCHANGED OutsideUpload

InitUpload ==
    StatusInit /\ WatchOff /\ NotifyInit /\ CallbackOff /\ CrudInit /\ UploadInit
      /\ ActorInit /\ ExtInit /\ MoreInit

SpecUpload == InitUpload /\ [][NextUpload]_vars

\* C2: a step of the upload run changes target_op of $local only in the commit
\* of PendingCheckpointRequest::complete, reached after the loop found ps_crud
\* empty, and only when the sequence of ps_crud equals the one captured before
\* the checkpoint was fetched; it then sets the fetched checkpoint. In every
\* other case the run leaves target_op alone, and target_op is still MAX_OP_ID
\* after the commit step unless a caller's own write checkpoint replaced it.
C2_CheckpointAdvance ==
    [][upPc' # upPc =>
          /\ target_op' # target_op =>
                /\ upPc = "complete"
                /\ crud_seq = crud_sequence
                /\ ps_crud = {}
                /\ target_op' = write_checkpoint
          /\ (upPc = "complete" /\ ~(crud_seq = crud_sequence /\ ps_crud = {})
                /\ ~customTarget) => target_op' = MAX_OP_ID
      ]_vars

\* The run committed the fetched checkpoint.
C2_Witness == upPc = "ok" /\ write_checkpoint # 0 /\ target_op = write_checkpoint

\* The run has read the same oldest id twice in a row.
SameItemTwice ==
    Len(observed) >= 2 /\ observed[Len(observed)] = observed[Len(observed) - 1]

NoRepeats(seq) == \A i, j \in 1..Len(seq) : seq[i] = seq[j] => i = j

OutsideActor == <<watchVars, notifyVars, callbackVars, crudVars, uploadVars, extVars, moreVars>>

Request == \E c \in Commands : SendCommand(c)

IterationStep ==
    \/ IterReceiveCommand
    \/ IterReceiveLine
    \/ IterExec
    \/ IterCredentials
    \/ IterTriggered

NextActor ==
    \/ Request /\ UNCHANGED OutsideActor
    \/ CloseCommands /\ UNCHANGED OutsideActor
    \/ ActorIdle /\ UNCHANGED OutsideActor
    \/ ActorIdleClosed /\ UNCHANGED OutsideActor
    \/ ActorRunning /\ UNCHANGED OutsideActor
    \/ ActorRunningClosed /\ UNCHANGED OutsideActor
    \/ ActorForwardBlocked /\ UNCHANGED OutsideActor
    \/ ActorWaiting /\ UNCHANGED OutsideActor
    \/ ActorWaitingClosed /\ UNCHANGED OutsideActor
    \/ ActorTimeoutExpired /\ UNCHANGED OutsideActor
    \/ IterationStep /\ UNCHANGED OutsideActor

InitActor ==
    StatusInit /\ WatchOff /\ NotifyInit /\ CallbackOff /\ CrudInit /\ UploadInit
      /\ ActorInit /\ ExtInit /\ MoreInit

SpecActor == InitActor /\ [][NextActor]_vars

\* The actor run loop keeps being polled: the reconnect timer fires.
FairSpecActor ==
    SpecActor /\ WF_vars(ActorTimeoutExpired /\ UNCHANGED OutsideActor)

IterationStarted == state # "Running" /\ state' = "Running"

\* C1: once the actor has received a Disconnect while Running or
\* WaitingForReconnect, no sync iteration is started (no Start event is
\* emitted) until a later Connect is received.
C1_DisconnectBeforeReconnect ==
    [][(disconnectSeen /\ disconnectSeen') => ~IterationStarted]_vars

\* C3: the instructions one control call returned are executed one at a time
\* from the head of the list; the control extension is handed the next event
\* only by a running iteration that has no instruction left; and executing a
\* CloseSyncStream ends the iteration, whatever the list holds after it.
C3_InstructionOrder ==
    /\ [][Pending => \/ instructions' = instructions
                     \/ instructions' = Tail(instructions)
                     \/ state' # "Running"]_vars
    /\ [][(instructions = <<>> /\ instructions' # <<>>)
            => (state = "Running" /\ iterPc = "recv" /\ state' = "Running")]_vars
    /\ [][(InForLoop /\ IsClose(Head(instructions)) /\ iterVars' # iterVars)
            => /\ state' = "WaitingForReconnect"
               /\ iterPc' = "none"
               /\ instructions' = <<>>
               /\ result'.kind = "close"]_vars

C3_Witness == state = "WaitingForReconnect" /\ result.kind = "close" /\ result.hide

\* C4: the step in which an iteration ends with error e publishes a snapshot
\* with download_error = e and takes the actor from Running to
\* WaitingForReconnect; from there the actor reaches Idle only through a
\* Disconnect or a closed channel, and otherwise starts a new iteration.
C4_IterationError ==
    /\ [][(result' # result /\ result'.kind = "err")
            => /\ statusData'.download_error = result'.e
               /\ state = "Running"
               /\ state' = "WaitingForReconnect"]_vars
    /\ [][(state = "WaitingForReconnect" /\ state' # state)
            => \/ state' = "Running"
               \/ /\ state' = "Idle"
                  /\ IF commands = <<>> THEN commandsClosed
                     ELSE Head(commands).cmd = "Disconnect"]_vars
    /\ (state = "WaitingForReconnect" /\ result.kind = "err")
          ~> (state \in {"Running", "Idle"})

C4_Witness ==
    /\ state = "WaitingForReconnect"
    /\ result = [kind |-> "err", e |-> "e2", hide |-> FALSE]
    /\ statusData.download_error = "e2"

(***************************************************************************)
(* The download actor next to the upload actor publishing its state        *)
(***************************************************************************)
NextActorStatus ==
    \/ NextActor
    \/ UploadStatusChange /\ UNCHANGED OutsideActor

SpecActorStatus == InitActor /\ [][NextActorStatus]_vars

ExecutesDidCompleteSync ==
    /\ InForLoop
    /\ Head(instructions) = "DidCompleteSync"
    /\ instructions' = Tail(instructions)

\* C5: a stored download error stays in every later snapshot, whatever else
\* updates the status, until DidCompleteSync is executed or a later iteration
\* error takes its place; the snapshot published by DidCompleteSync has no
\* download error.
C5_ErrorPersists ==
    [][/\ statusData.download_error # None
            => \/ statusData'.download_error = statusData.download_error
               \/ ExecutesDidCompleteSync
               \/ /\ result' # result
                  /\ result'.kind = "err"
                  /\ statusData'.download_error = result'.e
       /\ ExecutesDidCompleteSync => statusData'.download_error = None]_vars

C5_Witness ==
    /\ statusData.download_error = "e1"
    /\ statusData.uploads = "Uploading"
    /\ statusData.downloading = "connected"

(***************************************************************************)
(* Specification of the stream subscriptions                               *)
(***************************************************************************)
OutsideStreams == <<baseVars, txVars, completeVars, upActorVars, poolVars, moreVars>>

NextStreams ==
    \/ (\E h \in Subscriptions, k \in StreamKeys : Subscribe(h, k)) /\ UNCHANGED OutsideStreams
    \/ (\E h \in Subscriptions : SubscribeNotify(h)) /\ UNCHANGED OutsideStreams
    \/ (\E h \in Subscriptions : DropSubscription(h)) /\ UNCHANGED OutsideStreams
    \/ (\E h \in Subscriptions : GroupDrop(h)) /\ UNCHANGED OutsideStreams

InitStreams == BaseOff /\ ExtInit /\ MoreInit

SpecStreams == InitStreams /\ [][NextStreams]_vars

\* A StreamSubscription for k exists (or is about to be returned by subscribe).
SubscriptionAlive(k) ==
    \E h \in Subscriptions : subKey[h] = k /\ subPc[h] \in {"changed", "alive"}

\* The drop of the last StreamSubscription of a group of k is running.
DropRunning(k) ==
    \E h \in Subscriptions : subKey[h] = k /\ subPc[h] = "groupdrop"

\* C11: while a StreamSubscription for a key is alive the tracker has an entry
\* for the key, and the entry is the group the subscription holds; once every
\* subscription of the key has been dropped (N subscribes, N completed drops)
\* the tracker has no entry for the key.
C11_SubscriptionRefcount ==
    /\ \A h \in Subscriptions :
          subPc[h] \in {"changed", "alive"}
            => (streams[subKey[h]] = subGroup[h] /\ strong[subGroup[h]] > 0)
    /\ \A k \in StreamKeys :
          (~SubscriptionAlive(k) /\ ~DropRunning(k)) => streams[k] = 0

\* Three subscribes and three drops of the same key, through two groups.
C11_Witness ==
    /\ \A h \in Subscriptions : subPc[h] = "dropped" /\ subKey[h] = "s1"
    /\ \E h1, h2 \in Subscriptions : subGroup[h1] # subGroup[h2]
    /\ streams["s1"] = 0

\* C12: once the drop of the last StreamSubscription of a key has completed,
\* the download actor has been told: the key list last handed to
\* handle_subscriptions_changed does not hold the key.
C12_ActorToldOfDrop ==
    \A k \in StreamKeys :
        (/\ \A h \in Subscriptions : subPc[h] \in {"none", "dropped"}
         /\ streams[k] = 0
         /\ sentChanges # <<>>)
          => k \notin sentChanges[Len(sentChanges)]

(***************************************************************************)
(* Specification of the CRUD transactions                                  *)
(***************************************************************************)
OutsideCrudTx ==
    <<statusVars, watchVars, notifyVars, callbackVars, actorVars, iterVars, streamVars,
      completeVars, upActorVars, poolVars, moreVars>>

NextCrudTx ==
    \/ (\E n \in 1..MaxTxRows : WriteTransaction(n)) /\ UNCHANGED OutsideCrudTx
    \/ CrudTransactions /\ UNCHANGED OutsideCrudTx
    \/ PollNext /\ UNCHANGED OutsideCrudTx
    \/ CompleteTransaction /\ UNCHANGED OutsideCrudTx
    \/ CompleteItems /\ UNCHANGED OutsideCrudTx

InitCrudTx == BaseOff /\ ExtInit /\ MoreInit

SpecCrudTx == InitCrudTx /\ [][NextCrudTx]_vars

Range(seq) == {seq[i] : i \in 1..Len(seq)}

\* C13: a transaction returned by next_crud_transaction, or by any stream,
\* after a completion has been awaited has only entries with a client id
\* greater than the completed last_item_id.
C13_NoCompletedEntryAgain ==
    (afterComplete /\ yielded # <<>>)
        => \A id \in Range(yielded[Len(yielded)].crud) : id > completedId

\* The first transaction is completed and a new stream returns the second.
C13_Witness ==
    /\ afterComplete
    /\ Len(yielded) = 1
    /\ completedId = 2
    /\ yielded[1].crud = <<3, 4, 5>>

RECURSIVE Flatten(_)
Flatten(txs) == IF txs = <<>> THEN <<>> ELSE Head(txs).crud \o Flatten(Tail(txs))

RECURSIVE Ascending(_)
Ascending(S) == IF S = {} THEN <<>> ELSE <<MinOf(S)>> \o Ascending(S \ {MinOf(S)})

IsPrefix(a, b) == Len(a) <= Len(b) /\ SubSeq(b, 1, Len(a)) = a

\* C14: while no write and no completion happens after a stream was made,
\* the transactions it returns hold the pending entries in ascending order of
\* their client ids, each once and all of them when the stream has ended; each
\* transaction is a whole run of entries of one transaction id, its
\* last_item_id the greatest id it holds; with nothing completed the sizes of
\* the transactions are the sizes of the write transactions, in order.
C14_TransactionGrouping ==
    txsQuiet =>
        /\ IsPrefix(Flatten(yielded), Ascending(ps_crud))
        /\ txsEnded => Flatten(yielded) = Ascending(ps_crud)
        /\ \A i \in 1..Len(yielded) :
              LET tx == yielded[i]
                  first == tx.crud[1]
                  last == tx.crud[Len(tx.crud)]
              IN  /\ tx.crud # <<>>
                  /\ \A id \in Range(tx.crud) : crudTx[id] = tx.id /\ id <= tx.last_item_id
                  /\ tx.last_item_id = last
                  /\ (first - 1) \in ps_crud => crudTx[first - 1] # tx.id
                  /\ (last + 1) \in ps_crud => crudTx[last + 1] # tx.id
        /\ ps_crud = 1..crud_seq
              => IsPrefix([i \in 1..Len(yielded) |-> Len(yielded[i].crud)], writtenSizes)

\* Three write transactions of 1, 2 and 3 rows are returned as three
\* transactions of those sizes and the stream has ended.
C14_Witness ==
    /\ txsQuiet /\ txsEnded
    /\ writtenSizes = <<1, 2, 3>>
    /\ ps_crud = 1..6
    /\ Len(yielded) = 3
    /\ yielded[1].crud = <<1>> /\ yielded[2].crud = <<2, 3>> /\ yielded[3].crud = <<4, 5, 6>>

(***************************************************************************)
(* Specification of complete_crud_items                                    *)
(***************************************************************************)
OutsideComplete ==
    <<statusVars, watchVars, notifyVars, callbackVars, uploadVars, actorVars, iterVars,
      streamVars, txVars, upActorVars, poolVars, moreVars>>

NextComplete ==
    \/ CCI_LocalWrite /\ UNCHANGED <<statusVars, watchVars, notifyVars, callbackVars,
                                     actorVars, iterVars, streamVars, txVars, upActorVars,
                                     poolVars, moreVars>>
    \/ CCI_Begin /\ UNCHANGED OutsideComplete
    \/ CCI_Delete /\ UNCHANGED OutsideComplete
    \/ CCI_Select /\ UNCHANGED OutsideComplete
    \/ CCI_Update /\ UNCHANGED OutsideComplete
    \/ CCI_Commit /\ UNCHANGED OutsideComplete
    \/ CCI_Fail /\ UNCHANGED OutsideComplete

InitComplete == BaseOff /\ ExtInit /\ MoreInit

SpecComplete == InitComplete /\ [][NextComplete]_vars

\* The committed rows and target after a call with cci_last and cci_checkpoint.
CompletedRows == {id \in ps_crud : id > cci_last}

CompletedTarget ==
    IF target_op = NoLocalBucket THEN NoLocalBucket
    ELSE IF cci_checkpoint # 0 /\ CompletedRows = {} THEN cci_checkpoint
    ELSE MAX_OP_ID

\* C15: complete_crud_items is atomic. While a call runs, the committed
\* ps_crud and target_op of $local change in one step only, the commit of a
\* call that returns Ok: it deletes exactly the rows with id <= last_client_id
\* and sets the target to the checkpoint iff one is given and ps_crud is then
\* empty, else to MAX_OP_ID. A call that fails leaves both as they were.
C15_AtomicCompletion ==
    /\ [][(cciPc # "none" /\ <<ps_crud, target_op>>' # <<ps_crud, target_op>>)
            => (cciPc = "commit" /\ cciResult' = "ok")]_vars
    /\ [][(cciPc # "none" /\ cciResult' = "ok")
            => (ps_crud' = CompletedRows /\ target_op' = CompletedTarget)]_vars
    /\ [][(cciPc # "none" /\ cciResult' = "err")
            => (ps_crud' = ps_crud /\ target_op' = target_op)]_vars

\* A call with a checkpoint has emptied ps_crud and set the target to it.
C15_Witness ==
    /\ cciPc = "none" /\ cciResult = "ok"
    /\ crud_seq = 2 /\ ps_crud = {}
    /\ cci_checkpoint # 0 /\ target_op = cci_checkpoint

(***************************************************************************)
(* Specification of the upload actor                                       *)
(***************************************************************************)
OutsideUploadActor ==
    <<watchVars, notifyVars, callbackVars, actorVars, iterVars, streamVars, txVars,
      completeVars, poolVars, moreVars>>

\* handle_event and the run it polls.
UploadActorStep ==
    \/ UploadActorIdle
    \/ UploadActorCrudChange
    \/ UploadActorConnectedCommand
    \/ UploadActorCommandWhileUploading
    \/ UploadActorRunStep
    \/ UploadActorDone
    \/ UploadActorTimeout

\* The requests in flight: they complete once the channel has room.
UploadRequestStep ==
    \/ ConnectUpload
    \/ TriggerCrudUploads

NextUploadActor ==
    \/ UploadActorStep /\ UNCHANGED OutsideUploadActor
    \/ UploadRequestStep /\ UNCHANGED OutsideUploadActor
    \/ UploadActorLocalWrite /\ UNCHANGED OutsideUploadActor
    \/ UploadActorCompleteCrud /\ UNCHANGED OutsideUploadActor
    \/ ConnectDownload /\ UNCHANGED OutsideUploadActor
    \/ EstablishSyncStream /\ UNCHANGED OutsideUploadActor
    \/ DisconnectUpload /\ UNCHANGED OutsideUploadActor
    \/ CloseUploadCommands /\ UNCHANGED OutsideUploadActor

InitUploadActor == BaseOff /\ ExtInit /\ MoreInit

SpecUploadActor == InitUploadActor /\ [][NextUploadActor]_vars

\* The executor keeps polling the actor, and a send on a channel with room
\* completes; writes, connect(), disconnect() and the service are not forced.
FairSpecUploadActor ==
    /\ SpecUploadActor
    /\ WF_vars(UploadActorStep /\ UNCHANGED OutsideUploadActor)
    /\ WF_vars(UploadRequestStep /\ UNCHANGED OutsideUploadActor)

\* C17: the actor enters WaitingForReconnect when a run has failed, with the
\* upload status set to Error, and from there only Connected, Idle (Disconnect) and
\* Stopped follow; and once the actor waits after a failed run, a new run
\* starts, unless a Disconnect arrives, the channel is closed or ps_crud is
\* emptied.
C17_RetryAfterError ==
    /\ [][(upState # "WaitingForReconnect" /\ upState' = "WaitingForReconnect")
            => (upState = "RunningUpload" /\ upPc = "failed"
                  /\ statusData'.uploads = "Error")]_vars
    /\ [][(upState = "WaitingForReconnect" /\ upState' # upState)
            => upState' \in {"Connected", "Idle", "Stopped"}]_vars
    /\ (upState = "WaitingForReconnect")
          ~> (\/ upState = "RunningUpload"
              \/ disconnectSent \/ upClosed
              \/ ps_crud = {})

\* C18: after connect(), once the iteration has established a sync stream
\* and triggers a CRUD upload, the upload actor starts a run, unless a
\* Disconnect arrives or the channel is closed; stated for the interleavings
\* in which the upload actor has not handled its Connect when the iteration
\* sends the trigger.
C18_TriggerStartsUpload ==
    (triggerPc = "send" /\ upState = "Idle")
        ~> (upState = "RunningUpload" \/ disconnectSent \/ upClosed)

(***************************************************************************)
(* Specification of the BSON framer                                        *)
(***************************************************************************)
OutsideBson == <<baseVars, extVars, coordVars, task, httpVars, lateVars>>

NextBson == (\E n \in 0..(6 * MaxFrames + 5) : poll_next(n)) /\ UNCHANGED OutsideBson

InitBson == BaseOff /\ ExtInit /\ BsonInit /\ CoordOff /\ task = "none" /\ HttpOff /\ LateOff

SpecBson == InitBson /\ [][NextBson]_vars

\* C22: however the reader hands out the bytes, the frames yielded so far are
\* the first frames the input was built from; the stream yields all of them
\* and then ends without an error when nothing follows the last frame (so an
\* empty input gives no frame and no error), with the invalid-data error when
\* a header below 5 follows, and with the unexpected-eof error when the input
\* ends inside a header or inside a frame.
C22_BsonRoundTrip ==
    /\ Len(items) <= Len(bsFrames)
    /\ items = SubSeq(bsFrames, 1, Len(items))
    /\ bsEnd # "open" =>
          /\ items = bsFrames
          /\ bsEnd = "None" <=> bsTail = <<>>
          /\ bsEnd = "InvalidData" <=> bsTail \in InvalidHeaders
          /\ bsEnd = "UnexpectedEof" <=> bsTail \in Truncated

\* Two frames were yielded from an input whose chunks ended inside a header
\* or a frame, and the stream ended without an error.
C22_Witness ==
    /\ bsEnd = "None" /\ straddled
    /\ Len(items) = 2 /\ items = bsFrames /\ items[1] # items[2]

(***************************************************************************)
(* Specification of the connection pool                                    *)
(***************************************************************************)
OutsidePool == <<baseVars, streamVars, txVars, completeVars, upActorVars, moreVars>>

NextPool ==
    \/ (\E l \in Leases : TakeConnection(l)) /\ UNCHANGED OutsidePool
    \/ (\E l \in Leases : TakeReader(l)) /\ UNCHANGED OutsidePool
    \/ (\E l \in Leases : TakeWriter(l)) /\ UNCHANGED OutsidePool
    \/ (\E l \in Leases, t \in PoolTables : PoolWrite(l, t)) /\ UNCHANGED OutsidePool
    \/ (\E l \in Leases : PoolBegin(l)) /\ UNCHANGED OutsidePool
    \/ (\E l \in Leases : PoolCommit(l)) /\ UNCHANGED OutsidePool
    \/ (\E l \in Leases : PoolRollback(l)) /\ UNCHANGED OutsidePool
    \/ (\E l \in Leases : DropLeasedWriter(l)) /\ UNCHANGED OutsidePool
    \/ (\E l \in Leases : DropLeasedReader(l)) /\ UNCHANGED OutsidePool

InitPool ==
    BaseOff /\ StreamsInit /\ CrudTxInit /\ CompleteInit /\ UploadActorInit /\ PoolInit /\ MoreInit

SpecPool == InitPool /\ [][NextPool]_vars

\* The notifications produced by the drop of lease l.
NotificationsOf(l) == {i \in 1..Len(notifications) : notifications[i].lease = l}

HeldLeases == {l \in Leases : leasePc[l] = "held"}

\* C20: at most one lease holds the writer at any time, whether it was taken
\* with the sync or the async call; without pooled readers, where reader()
\* takes the writer, at most one lease of either kind is held.
C20_WriterExclusive ==
    /\ Cardinality({l \in HeldLeases : leaseImpl[l] = "Writer"}) <= 1
    /\ readers = NoReaders => Cardinality(HeldLeases) <= 1
    /\ writerLocked <=> (\E l \in HeldLeases : leaseImpl[l] = "Writer")

\* Single-connection mode: a reader_sync() lease holds the writer while an
\* async writer() call waits for it.
C20_Witness ==
    /\ readers = NoReaders
    /\ \E l1, l2 \in Leases :
          /\ leasePc[l1] = "held" /\ ~leaseWriter[l1] /\ leaseSync[l1]
          /\ leaseImpl[l1] = "Writer"
          /\ leasePc[l2] = "waiting" /\ leaseWriter[l2] /\ ~leaseSync[l2]

\* The recv() and recv_blocking() of a waiting caller return once the channel
\* holds a connection, and lock() once the mutex is free.
FairSpecPool ==
    /\ SpecPool
    /\ WF_vars((\E l \in Leases : TakeReader(l)) /\ UNCHANGED OutsidePool)
    /\ WF_vars((\E l \in Leases : TakeWriter(l)) /\ UNCHANGED OutsidePool)

ReaderLeases == {l \in HeldLeases : leaseImpl[l] = "Reader"}

PendingReaders == {l \in Leases : leasePc[l] = "waiting" /\ UsesReader(l)}

\* C21: in a pool with readers, no reader lease is out at the start and every
\* step keeps (connections in the channel) + (outstanding reader leases), so
\* the sum stays the number of readers of the pool; the drop of a reader
\* lease puts one connection into the channel; and a connection does not
\* stay in the channel while a reader request is pending.
C21_ReadersConserved ==
    /\ (readers # NoReaders => ReaderLeases = {})
    /\ [][readers # NoReaders =>
            readers' + Cardinality(ReaderLeases') = readers + Cardinality(ReaderLeases)]_vars
    /\ [][\A l \in Leases :
            (l \in ReaderLeases /\ leasePc'[l] = "dropped") => readers' = readers + 1]_vars
    /\ (readers > 0 /\ PendingReaders # {}) ~> (readers = 0 \/ PendingReaders = {})

\* Lease 1 returned the reader it held and lease 2 holds that connection.
C21_Witness ==
    /\ leasePc[1] = "dropped" /\ leaseImpl[1] = "Reader"
    /\ leasePc[2] = "held" /\ leaseImpl[2] = "Reader"
    /\ readers = 0

(***************************************************************************)
(* Specification of the callback listeners                                 *)
(***************************************************************************)
DropHandle == \E id \in CallbackIds : CB_DropStore(id) \/ CB_DropTryLock(id)

NextCallbacks ==
    \/ NotifyUpdates /\ UNCHANGED OutsideNotifier
    \/ NU_EnterCallbacks /\ UNCHANGED OutsideNotifier
    \/ NU_CallbackStep /\ UNCHANGED OutsideNotifier
    \/ NU_Finish /\ UNCHANGED OutsideNotifier
    \/ DropHandle /\ UNCHANGED OutsideNotifier

InitCallbacks ==
    StatusInit /\ WatchOff /\ NotifyInit /\ CallbackInit /\ CrudInit /\ UploadInit
      /\ ActorInit /\ ExtInit /\ MoreInit

SpecCallbacks == InitCallbacks /\ [][NextCallbacks]_vars

\* C8: a callback is invoked for each reported change that matches its filter
\* while its handle is alive, and is never invoked once the drop of its handle
\* has completed.
C8_NoCallAfterDrop ==
    [][\A id \in CallbackIds :
          handlePc[id] = "dropped" => cbInvoked'[id] = cbInvoked[id]]_vars


(***************************************************************************)
(* Specification of the requests to the download actor                     *)
(***************************************************************************)
OutsideCoord == <<baseVars, extVars, bsonVars, task, httpVars, lateVars>>

NextCoord ==
    \/ (\E c \in Callers : CallCoordinator(c)) /\ UNCHANGED OutsideCoord
    \/ (\E c \in Callers, k \in CoordKeys : subscribe_with(c, k)) /\ UNCHANGED OutsideCoord
    \/ (\E c \in Callers : download_actor_request(c)) /\ UNCHANGED OutsideCoord
    \/ (\E c \in Callers : CallContinues(c)) /\ UNCHANGED OutsideCoord
    \/ (\E k \in CoordKeys : DropStreamGroup(k)) /\ UNCHANGED OutsideCoord
    \/ DropDatabase /\ UNCHANGED OutsideCoord
    \/ DlIdle /\ UNCHANGED OutsideCoord
    \/ DlIdleClosed /\ UNCHANGED OutsideCoord
    \/ DlForwardingRequest /\ UNCHANGED OutsideCoord
    \/ DlForwardingClosed /\ UNCHANGED OutsideCoord
    \/ DlForwardUnblocked /\ UNCHANGED OutsideCoord
    \/ DlIterationEvent /\ UNCHANGED OutsideCoord
    \/ DlStreamEvent /\ UNCHANGED OutsideCoord
    \/ DlWaitForDisconnect /\ UNCHANGED OutsideCoord
    \/ DlWaitClosed /\ UNCHANGED OutsideCoord
    \/ DlTimeoutExpired /\ UNCHANGED OutsideCoord
    \/ RetryDelayElapses /\ UNCHANGED OutsideCoord

InitCoord == BaseOff /\ ExtInit /\ BsonOff /\ CoordInit /\ task = "none" /\ HttpOff /\ LateOff

SpecCoord == InitCoord /\ [][NextCoord]_vars

\* The request at the head of the command channel is taken by the actor.
RequestTaken(cmd) ==
    /\ dlCommands # <<>> /\ Head(dlCommands).cmd = cmd
    /\ dlCommands' = Tail(dlCommands)

IterationStarts == dlState # "Running" /\ dlState' = "Running"

\* C24: the first event an iteration takes is its Start event and it takes no
\* second one; the Start event of an iteration started from Idle or from
\* WaitingForReconnect carries include_default_streams of the stored options and
\* the keys the tracker holds at that step, and stays the same while it runs.
C24_StartEvent ==
    /\ dlFirst \in {None, "Start"}
    /\ dlStarts <= 1
    /\ (dlFirst # None => dlStarts = 1)
    /\ [][IterationStarts =>
            /\ dlEvents' = <<Ev("Start")>> /\ dlFirst' = None /\ dlStarts' = 0
            /\ dlOptions' # 0
            /\ dlStart' = [include_defaults |-> include_default_streams(dlOptions'),
                           active_streams |-> tracker]]_vars
    /\ [][(dlState = "Running" /\ dlState' = "Running") => dlStart' = dlStart]_vars

C24_Witness ==
    /\ dlState = "Running" /\ dlStream
    /\ dlFirst = "Start" /\ dlStarts = 1
    /\ dlOptions = 2
    /\ dlStart = [include_defaults |-> FALSE, active_streams |-> {"s1"}]

(***************************************************************************)
(* Specification of the two actor tasks when the database is dropped       *)
(***************************************************************************)
\* AsyncDatabaseTasks holds the two run futures; they share no state that
\* decides whether they stop, so each behaviour follows one of them.
NextStop ==
    \/ task = "download" /\ NextCoord
    \/ task = "upload" /\ NextUploadActor

InitStop ==
    /\ BaseOff /\ ExtInit /\ BsonOff /\ HttpOff /\ LateOff
    /\ task \in {"download", "upload"}
    /\ IF task = "download" THEN CoordInit ELSE CoordOff

SpecStop == InitStop /\ [][NextStop]_vars

\* The executor keeps polling both run futures, and the iteration with them.
\* future::race polls its two futures in random order, so a closed command
\* channel, which is ready at every poll, is not passed over for ever.
FairSpecStop ==
    /\ SpecStop
    /\ WF_vars(task = "download"
                 /\ (DlIdleClosed \/ DlForwardingClosed \/ DlForwardUnblocked)
                 /\ UNCHANGED OutsideCoord)
    /\ WF_vars(task = "download" /\ DlIterationEvent /\ UNCHANGED OutsideCoord)
    /\ SF_vars(task = "download" /\ DlWaitClosed /\ UNCHANGED OutsideCoord)
    /\ WF_vars(task = "upload" /\ UploadActorStep /\ UNCHANGED OutsideUploadActor)
    /\ SF_vars(task = "upload" /\ UploadActorCommandWhileUploading
                 /\ UNCHANGED OutsideUploadActor)

OutsideHttp == <<baseVars, extVars, bsonVars, coordVars, task, lateVars>>

NextHttp ==
    \/ HttpResponseArrives /\ UNCHANGED OutsideHttp
    \/ HttpNextItem /\ UNCHANGED OutsideHttp
    \/ HttpReadError /\ UNCHANGED OutsideHttp
    \/ HttpLocalStop /\ UNCHANGED OutsideHttp

InitHttp == BaseOff /\ ExtInit /\ BsonOff /\ CoordOff /\ task = "none" /\ HttpInit /\ LateOff

SpecHttp == InitHttp /\ [][NextHttp]_vars

\* The request of the stream failed, or was answered with another status
\* than 200.
RequestFailed == ResponseResult(response) # "Ok"

\* C26: for a request that fails at transport level or is answered with a
\* status other than 200, no ConnectionEstablished event is passed to the
\* extension, and when the stream ends the iteration it does so with the
\* mapped error: InvalidCredentials for 401, UnexpectedStatusCode for every
\* other status, the transport error otherwise.
C26_FailedRequestNotEstablished ==
    RequestFailed =>
        /\ \A i \in 1..Len(passed) : passed[i] # ConnectionEstablished
        /\ iterEnd \notin {"running", "closed", "Sqlite"} =>
              /\ iterEnd # "IO"
              /\ response.outcome = "transport" <=> iterEnd = "Http"
              /\ (response.outcome = "response" /\ response.code = 401)
                    <=> iterEnd = "InvalidCredentials"
              /\ (response.outcome = "response" /\ response.code # 401)
                    <=> iterEnd = "UnexpectedStatusCode"

\* The event the extension is to see for the i-th line of the body.
ExpectedLine(i) ==
    [type |-> IF response.mime = BsonMime THEN "BinaryLine" ELSE "TextLine",
     data |-> respLines[i]]

\* C27: for a response with status 200 the events passed to the extension
\* are ConnectionEstablished first and once, then the lines of the body in
\* their order, each as BinaryLine for the BSON content type and as TextLine
\* otherwise, and ResponseStreamEnd only after the last line; the iteration
\* may end before all of them were passed.
C27_ResponseEvents ==
    ~RequestFailed =>
        /\ Len(passed) <= Len(respLines) + 1 + MaxEnds
        /\ \A i \in 1..Len(passed) :
              passed[i] = IF i = 1 THEN ConnectionEstablished
                          ELSE IF i - 1 <= Len(respLines) THEN ExpectedLine(i - 1)
                          ELSE ResponseStreamEnd

C27_Witness ==
    /\ ~RequestFailed /\ iterEnd = "closed"
    /\ response.mime = BsonMime
    /\ Len(respLines) = 2 /\ respLines[1] # respLines[2]
    /\ passed = <<ConnectionEstablished, ExpectedLine(1), ExpectedLine(2), ResponseStreamEnd>>

\* The request of caller c is acknowledged in this step.
Acknowledged(c) == callers[c].pc = "wait" /\ callers'[c].pc = "acked"

\* C28: a Disconnect received while Running is acknowledged only when the
\* running iteration has finished: the step that releases disconnect() leaves
\* the actor outside Running.
C28_DisconnectAckAfterIteration ==
    [][\A c \in Callers :
          (callers[c].cmd = "Disconnect" /\ Acknowledged(c) /\ dlState = "Running")
            => dlState' # "Running"]_vars

\* The reconnect timer starts the next iteration in this step.
Restarts == dlState = "WaitingForReconnect" /\ dlState' = "Running"

\* C29: the iteration that follows a finished one may start at once when
\* that one ended with hide_disconnect set (dlTimeout = "zero"); when it ended
\* with hide_disconnect unset or with an error (dlTimeout = "delay") the next
\* one starts only after the retry delay of the options has elapsed.
C29_RestartAfterRetryDelay ==
    [][Restarts => (dlTimeout = "delay" => dlElapsed)]_vars

\* C30: a Connect taken while Running or WaitingForReconnect changes neither
\* the state of the actor, nor its iteration, nor the pending timeout, nor the
\* stored options; the stored options change only when Idle accepts a Connect,
\* to the options of that Connect, and a restart by the timeout keeps them and
\* starts the iteration with them.
C30_ConnectWhileConnected ==
    /\ [][(dlState \in {"Running", "WaitingForReconnect"} /\ RequestTaken("Connect"))
            => UNCHANGED <<dlState, dlOptions, dlEvents, dlForward, dlTimeout, dlElapsed,
                           dlStart, dlFirst, dlStarts, dlStream>>]_vars
    /\ [][dlOptions' # dlOptions
            => /\ dlState = "Idle" /\ RequestTaken("Connect")
               /\ dlOptions' = Head(dlCommands).arg]_vars
    /\ [][Restarts
            => /\ dlOptions' = dlOptions
               /\ dlStart'.include_defaults = include_default_streams(dlOptions)]_vars

C30_Witness ==
    \E c \in Callers :
        /\ callers[c].cmd = "Connect" /\ callers[c].pc = "acked"
        /\ callers[c].arg = 1 /\ dlOptions = 2
        /\ dlState = "Running" /\ dlFirst = None
        /\ ~dlStart.include_defaults

\* The events on their way to the iteration: those in its channel, then the
\* one a waiting send of forwarding_request holds.
Pipeline ==
    dlEvents \o (IF dlForward = NoRequest THEN <<>> ELSE <<EventFor(dlForward)>>)

\* The event a forwarded command stands for.
ExpectedEvent(r) ==
    IF r.cmd = "SubscriptionsChanged"
      THEN [type |-> "UpdateSubscriptions", keys |-> r.keys]
      ELSE [type |-> "CompletedUpload", keys |-> {}]

\* C31: while the iteration keeps running, a SubscriptionsChanged or
\* CrudUploadComplete taken by the actor puts exactly its event at the end of
\* the events on their way to the iteration; every other step leaves these
\* events as they are, appends a Stop, or removes the first of them, which the
\* iteration takes; so every forwarded event is taken once, in the order of the
\* commands, and none is dropped for an event of the response stream.
C31_ForwardedInOrder ==
    /\ Len(Pipeline) <= 2
    /\ [][(dlState = "Running" /\ dlState' = "Running") =>
            IF dlCommands # <<>> /\ dlCommands' = Tail(dlCommands)
                 /\ Head(dlCommands).cmd \in {"SubscriptionsChanged", "CrudUploadComplete"}
              THEN Pipeline' = Append(Pipeline, ExpectedEvent(Head(dlCommands)))
              ELSE \/ Pipeline' = Pipeline
                   \/ Pipeline' = Append(Pipeline, Ev("Stop"))
                   \/ /\ Pipeline # <<>> /\ Pipeline' = Tail(Pipeline)
                      /\ dlFirst' # None
                      /\ Head(Pipeline).type = "UpdateSubscriptions"
                            => dlSubs' = Head(Pipeline).keys]_vars

C31_Witness ==
    /\ dlState = "Running" /\ dlStream
    /\ dlEvents = <<Ev("CompletedUpload")>>
    /\ dlForward.cmd = "SubscriptionsChanged" /\ dlForward.keys = {"s1"}

(***************************************************************************)
(* Specification of the waiting between callers, actors and iteration      *)
(***************************************************************************)
OutsideWait == <<baseVars, extVars, bsonVars, coordVars, task, httpVars, regVars, sharedVars>>

NextWait ==
    \/ (\E c \in Callers : WCall(c)) /\ UNCHANGED OutsideWait
    \/ (\E c \in Callers : WSendDownload(c)) /\ UNCHANGED OutsideWait
    \/ (\E c \in Callers : WSendUpload(c)) /\ UNCHANGED OutsideWait
    \/ WDlIdle /\ UNCHANGED OutsideWait
    \/ WDlResolve /\ UNCHANGED OutsideWait
    \/ WDlForward /\ UNCHANGED OutsideWait
    \/ WDlForwardUnblocked /\ UNCHANGED OutsideWait
    \/ WDlIterationDone /\ UNCHANGED OutsideWait
    \/ WDlWaiting /\ UNCHANGED OutsideWait
    \/ WDlTimeout /\ UNCHANGED OutsideWait
    \/ WIterReceive /\ UNCHANGED OutsideWait
    \/ WIterWriter /\ UNCHANGED OutsideWait
    \/ WIterControl /\ UNCHANGED OutsideWait
    \/ WIterCredentials /\ UNCHANGED OutsideWait
    \/ WIterTriggerSend /\ UNCHANGED OutsideWait
    \/ WIterTriggered /\ UNCHANGED OutsideWait
    \/ WUpIdle /\ UNCHANGED OutsideWait
    \/ WUpConnected /\ UNCHANGED OutsideWait
    \/ WUpCrudChange /\ UNCHANGED OutsideWait
    \/ WUpWhileUploading /\ UNCHANGED OutsideWait
    \/ WUpRun /\ UNCHANGED OutsideWait
    \/ WUpComplete /\ UNCHANGED OutsideWait
    \/ WUpDone /\ UNCHANGED OutsideWait
    \/ WUpTimeout /\ UNCHANGED OutsideWait

InitWait ==
    BaseOff /\ ExtInit /\ BsonOff /\ CoordOff /\ task = "none" /\ HttpOff /\ WaitInit
      /\ RegOff /\ SharedOff

SpecWait == InitWait /\ [][NextWait]_vars

\* The executor keeps polling both actor tasks, and the iteration inside the
\* download actor, and the connector returns. A sender that waits for room in
\* a command channel is served in its turn, which is strong fairness of the
\* send; everything else stays enabled until it is taken.
FairSpecWait ==
    /\ SpecWait
    /\ \A c \in Callers : SF_waitVars(WSendDownload(c) \/ WSendUpload(c))
    /\ SF_waitVars(WIterTriggerSend)
    /\ WF_waitVars(WDlIdle \/ WDlForward \/ WDlWaiting)
    /\ WF_waitVars(WDlResolve \/ WDlForwardUnblocked \/ WDlIterationDone)
    /\ WF_waitVars(WUpIdle \/ WUpConnected \/ WUpWhileUploading)
    /\ WF_waitVars(WUpDone)
    /\ WF_waitVars(WIterReceive \/ WIterWriter \/ WIterControl \/ WIterCredentials
                     \/ WIterTriggered)

\* C32: every call of the coordinator returns, whatever the two actors and the
\* iteration are doing when it is made, and so does the request the iteration
\* itself makes to the upload actor.
C32_RequestsReturn ==
    /\ \A c \in Callers : (wCall[c].pc # "idle") ~> (wCall[c].pc = "idle")
    /\ (wIter = "trigger_send") ~> (wIter \notin {"trigger_send", "trigger_ack"})

\* A caller waits behind a forwarding request that is blocked on the full
\* event channel, while the iteration waits for the upload actor with the
\* writer in hand and the upload run waits for the writer.
C32_Witness ==
    /\ wDlHeld # WNoRequest /\ wDlState = "Running"
    /\ \E c \in Callers : wCall[c].pc = "dl_send"
    /\ wIter = "trigger_ack" /\ wLease = "iteration"
    /\ wUpState = "RunningUpload" /\ wRun = "writer"

\* C33: while the iteration is suspended in fetch_credentials or in its request
\* to the upload actor, it holds no writer lease.
C33_NoLeaseAcrossAwait ==
    wIter \in {"credentials", "trigger_send", "trigger_ack"} => wLease # "iteration"

(***************************************************************************)
(* Specification of the registry of table streams                          *)
(***************************************************************************)
OutsideReg == <<baseVars, extVars, bsonVars, coordVars, task, httpVars, waitVars, sharedVars>>

NextReg ==
    \/ (\E i \in PendingListeners : TN_Listen(i)) /\ UNCHANGED OutsideReg
    \/ (\E i \in PendingListeners : PL_Drop(i)) /\ UNCHANGED OutsideReg
    \/ TN_DropNotifiers /\ UNCHANGED OutsideReg

InitReg ==
    BaseOff /\ ExtInit /\ BsonOff /\ CoordOff /\ task = "none" /\ HttpOff /\ WaitOff
      /\ RegInit /\ SharedOff

SpecReg == InitReg /\ [][NextReg]_vars

\* C34: while the notifier lives, `active` holds, once each, the listener
\* states of the streams made and not yet dropped; a stream that outlives the
\* notifier can still be dropped, and its drop changes nothing but the stream.
C34_ActiveListeners ==
    /\ notifiersAlive =>
         /\ {plActive[k] : k \in 1..Len(plActive)}
               = {i \in PendingListeners : plState[i] = "alive"}
         /\ \A j, k \in 1..Len(plActive) : plActive[j] = plActive[k] => j = k
    /\ ~notifiersAlive =>
         /\ plActive = <<>>
         /\ \A i \in PendingListeners : plState[i] = "alive" => ENABLED PL_Drop(i)

\* Of three streams the one made second has been dropped while the notifier
\* lives: the first and the third are left, in the order they were made.
C34_Witness ==
    /\ notifiersAlive /\ Len(plActive) = 2
    /\ \E i \in PendingListeners :
          /\ plState[i] = "dropped"
          /\ plActive[1] < i /\ i < plActive[2]

(***************************************************************************)
(* Specification of SharedFuture                                           *)
(***************************************************************************)
OutsideShared == <<baseVars, extVars, bsonVars, coordVars, task, httpVars, waitVars, regVars>>

NextShared ==
    \/ (\E c \in Sharers : SharedRun(c)) /\ UNCHANGED OutsideShared
    \/ (\E c \in Sharers : SharedCompareExchange(c)) /\ UNCHANGED OutsideShared
    \/ (\E c \in Sharers : SharedListen(c)) /\ UNCHANGED OutsideShared
    \/ (\E c \in Sharers : SharedLoad(c)) /\ UNCHANGED OutsideShared
    \/ (\E c \in Sharers : SharedWoken(c)) /\ UNCHANGED OutsideShared
    \/ (\E c \in Sharers : SharedStore(c)) /\ UNCHANGED OutsideShared
    \/ (\E c \in Sharers : SharedNotify(c)) /\ UNCHANGED OutsideShared
    \/ (\E c \in Sharers : SharedDropRunning(c)) /\ UNCHANGED OutsideShared
    \/ (\E c \in Sharers : SharedGuardNotify(c)) /\ UNCHANGED OutsideShared

InitShared ==
    BaseOff /\ ExtInit /\ BsonOff /\ CoordOff /\ task = "none" /\ HttpOff /\ WaitOff
      /\ RegOff /\ SharedInit

SpecShared == InitShared /\ [][NextShared]_vars

\* Every call of run that has not been dropped keeps being polled, and a drop,
\* once begun, runs its guard to the end. The initializer itself may never
\* return and may be dropped at any time.
FairSpecShared ==
    /\ SpecShared
    /\ \A c \in Sharers :
         WF_sharedVars(SharedCompareExchange(c) \/ SharedListen(c) \/ SharedLoad(c) \/ SharedWoken(c)
                         \/ SharedNotify(c) \/ SharedGuardNotify(c))

\* The calls whose initializer is running.
Initializing == {c \in Sharers : sfPc[c] \in {"running", "notify"}}

\* A call is inside run and waits for the value.
Waiting(c) == sfPc[c] \in {"cas", "listen", "load", "await"}

\* C35: at most one initializer runs at a time; once the state is Completed no
\* initializer starts and the result is not written again, and every call that
\* returns has the one result; and when the running call is dropped, a call
\* that waits gets to run its initializer, or finds the value.
C35_SharedFuture ==
    /\ [](Cardinality(Initializing) <= 1)
    /\ [](\A c \in Sharers : sfPc[c] = "done" =>
             sfState = "Completed" /\ sfResult # 0 /\ sfGot[c] = sfResult)
    /\ [][sfState = "Completed" =>
            /\ sfState' = "Completed" /\ sfResult' = sfResult
            /\ \A c \in Sharers : sfPc'[c] = "running" => sfPc[c] = "running"]_vars
    /\ \A c \in Sharers :
         (Waiting(c) /\ \E d \in Sharers : sfPc[d] \in {"guard", "dropped"})
            ~> (sfPc[c] \in {"running", "done"} \/ Initializing # {})

\* The first initializer was dropped while two calls waited for it; one of
\* them ran its own initializer and the other returned that result.
C35_Witness ==
    \E a, b, c \in Sharers :
       /\ sfPc[a] = "dropped"
       /\ sfPc[b] = "done" /\ sfResult = b
       /\ sfPc[c] = "done" /\ c # b /\ sfGot[c] = b

\* The running iteration is handed CompletedUpload.
CompletedUploadForwarded ==
    \/ \E k \in 1..Len(wEvents) : wEvents[k] = "CompletedUpload"
    \/ wCur = "CompletedUpload"

\* C36: when an upload run has returned Ok while the download actor is
\* Running, CompletedUpload is forwarded to the iteration, unless the download
\* actor leaves Running.
C36_CompletedUploadForwarded ==
    (wUpState = "RunningUpload" /\ wRun = "ok" /\ wDlState = "Running")
        ~> (CompletedUploadForwarded \/ wDlState # "Running")

\* A step in which handle_event takes a TriggerCrudUpload from the channel.
TriggerReceived ==
    /\ upCommands # <<>>
    /\ Head(upCommands) = "TriggerCrudUpload"
    /\ upCommands' = Tail(upCommands)

\* A step in which a run begins at the head of CrudUpload::run.
RunStarts == upPc' = "oldest" /\ upPc \notin {"oldest", "upload"}

\* C37: at most one upload run is in flight: a run is underway only in
\* RunningUpload, and a run begins only from Connected, where none is underway;
\* a TriggerCrudUpload received or a change of ps_crud while the actor is in
\* RunningUpload keeps the state and leaves the run in progress where it is.
C37_OneUploadRun ==
    /\ [](upPc # "idle" => upState = "RunningUpload")
    /\ [][RunStarts => (upState = "Connected" /\ upPc = "idle"
                          /\ upState' = "RunningUpload")]_vars
    /\ [][(upState = "RunningUpload" /\ (TriggerReceived \/ ps_crud' # ps_crud))
            => (upState' = "RunningUpload" /\ UNCHANGED uploadVars)]_vars

\* A run has called upload_data and waits for it, ps_crud has changed since
\* the run began and a TriggerCrudUpload is in the channel.
C37_Witness ==
    /\ upState = "RunningUpload"
    /\ upPc = "upload"
    /\ uploadCalls # <<>>
    /\ crudDirty
    /\ upCommands # <<>>
    /\ Head(upCommands) = "TriggerCrudUpload"

\* The mutators of the download side: update_from_core and
\* resolve_offline_state replace `downloading`, the other two write the error.
DownloadMutators ==
    {m \in Mutators : m.op \in {"update_from_core", "set_download_error",
                                "clear_download_errors"}}

\* C38: an update of the status with a mutator of the download side leaves
\* the upload status as it was, so that Uploading and Error stay in every
\* snapshot until set_upload_state is called with another status.
C38_UploadStatusKept ==
    [][\A m \in DownloadMutators :
          StatusInstall(m) => statusData'.uploads = statusData.uploads]_vars

\* A step in which handle_event takes a Disconnect from the channel.
DisconnectReceived ==
    /\ upCommands # <<>>
    /\ Head(upCommands) = "Disconnect"
    /\ upCommands' = Tail(upCommands)

\* A step in which handle_event takes a Connect from the channel.
ConnectReceived ==
    /\ upCommands # <<>>
    /\ Head(upCommands) = "Connect"
    /\ upCommands' = Tail(upCommands)

\* C40: a Disconnect received in Connected, RunningUpload or
\* WaitingForReconnect leads to Idle and drops the run in flight; while the
\* actor is Idle no run is underway and upload_data is not called, whatever
\* happens to ps_crud and whatever command but Connect arrives; and Idle is
\* left only by a Connect received (or for Stopped, on a closed channel).
C40_DisconnectStopsUploads ==
    /\ [][(DisconnectReceived
              /\ upState \in {"Connected", "RunningUpload", "WaitingForReconnect"})
            => (upState' = "Idle" /\ upPc' = "idle")]_vars
    /\ [](upState = "Idle" => upPc = "idle")
    /\ [][upState = "Idle" => uploadCalls' = uploadCalls]_vars
    /\ [][(upState = "Idle" /\ upState' # "Idle")
            => (ConnectReceived \/ upState' = "Stopped")]_vars

\* The actor is Idle after a Disconnect that it has received, a run had
\* called upload_data for an item that is still in ps_crud, and a
\* TriggerCrudUpload waits in the channel.
C40_Witness ==
    /\ upState = "Idle"
    /\ disconnectSent
    /\ uploadCalls # <<>>
    /\ last_item_id \in ps_crud
    /\ upCommands # <<>>
    /\ Head(upCommands) = "TriggerCrudUpload"

(***************************************************************************)
(* Specification of concurrent subscribe() calls for different keys        *)
(***************************************************************************)
\* The requests to the download actor, with the callers subscribing to the
\* keys of StreamKeys; subscriptions are kept and the database stays open.
NextSubs ==
    \/ (\E c \in Callers : CallCoordinator(c)) /\ UNCHANGED OutsideCoord
    \/ (\E c \in Callers, k \in StreamKeys : subscribe_with(c, k)) /\ UNCHANGED OutsideCoord
    \/ (\E c \in Callers : download_actor_request(c)) /\ UNCHANGED OutsideCoord
    \/ (\E c \in Callers : CallContinues(c)) /\ UNCHANGED OutsideCoord
    \/ DlIdle /\ UNCHANGED OutsideCoord
    \/ DlForwardingRequest /\ UNCHANGED OutsideCoord
    \/ DlForwardUnblocked /\ UNCHANGED OutsideCoord
    \/ DlIterationEvent /\ UNCHANGED OutsideCoord
    \/ DlStreamEvent /\ UNCHANGED OutsideCoord
    \/ DlWaitForDisconnect /\ UNCHANGED OutsideCoord
    \/ DlTimeoutExpired /\ UNCHANGED OutsideCoord
    \/ RetryDelayElapses /\ UNCHANGED OutsideCoord

SpecSubs == InitCoord /\ [][NextSubs]_vars

\* No call is in progress and nothing is on its way to the iteration.
SubsSettled ==
    /\ \A c \in Callers : callers[c].pc = "idle"
    /\ dlCommands = <<>>
    /\ Pipeline = <<>>

\* C39: when the iteration was started with no subscription, every key of
\* StreamKeys has been subscribed to since (while the actor was Running, as a
\* new iteration reads the tracker again), every subscribe() has returned
\* and the iteration has taken every event sent to it, the keys the
\* iteration was told last are the keys of the tracker.
C39_LastKeysCurrent ==
    (/\ SubsSettled
     /\ dlState = "Running"
     /\ dlStarts = 1
     /\ dlStart.active_streams = {}
     /\ tracker = StreamKeys)
        => dlSubs = tracker

=============================================================================
